---- MODULE Spec2Model ----
(***************************************************************************)
(* The stdio bridge of aider_mcp_client: communicate_with_mcp_server       *)
(* (src/aider_mcp_client/client.py, lines 68-257) run against one child    *)
(* process.  The bridge is a sequential program; its position is pc.  The  *)
(* child and the clock are the environment and interleave with it.         *)
(*                                                                         *)
(* Text is a sequence of symbols.  A JSON object is written "{" k "}"      *)
(* where the symbol k stands for the members of the object ("r": a result  *)
(* member, "l": a library member, "g": some other member); "n" is the JSON *)
(* literal null, " " is white space, "\n" ends a line, and any other       *)
(* arrangement of symbols is not JSON.                                     *)
(***************************************************************************)
EXTENDS Integers, Sequences, FiniteSets, TLC

\* ---------------------------------------------------------------- bounds
\* Lines the child writes on its stdout during one call.
MaxLines == 2
\* Lines the child writes on its stderr during one call.
MaxErrLines == 1
\* The largest timeout (seconds) a call is given.
MaxTimeout == 1
MaxExit == 2
\* Lines a child writes on its stdout when two calls run at the same time.
MaxCallLines == 1
\* Children started, in all, by two calls that run at the same time.
MaxChildren == 3

\* ------------------------------------------------------ program constants
\* Seconds the bridge waits for the startup banner.
STARTUP_WAIT == 5
\* Characters asked of one read of the child's stdout.
CHUNK == 4096
\* Seconds process.wait is given after terminate().
TERM_WAIT == 2
TOKEN_FLOOR == 5000
\* The timeout used when the configuration names none.
DEFAULT_TIMEOUT == 30

NL == "\n"
SP == " "

\* The lines a child may write on stdout (without the line end).
LineLog == <<"{", "g", "}">>
LineResult == <<"{", "r", "}">>
LineLibrary == <<"{", "l", "}">>
LineNull == <<"n">>
LineBad == <<"x">>
LineBlank == <<SP>>
Menu == {LineLog, LineResult, LineLibrary, LineNull, LineBad, LineBlank}

\* The lines a child may write on stderr.
Banner == "banner"
OtherText == "other"
ErrMenu == {Banner, OtherText}

\* Decoded values.  None is Python's None (and what JSON null decodes to).
None == "None"
DictResult == "dict:result"
DictLibrary == "dict:library"
DictLog == "dict:log"
JsonDecodeError == "JSONDecodeError"

\* ---------------------------------------------------------------- helpers
Min(a, b) == IF a < b THEN a ELSE b

Last(s) == s[Len(s)]

Range(s) == {s[i] : i \in 1..Len(s)}

\* s[n:] of Python: s without its first n elements (empty when n >= len).
Drop(s, n) == IF n >= Len(s) THEN <<>> ELSE SubSeq(s, n + 1, Len(s))

\* s[:n] of Python.
Take(s, n) == SubSeq(s, 1, Min(n, Len(s)))

IsSpace(c) == c \in {SP, NL}

RECURSIVE LStrip(_)
LStrip(s) == IF s # <<>> /\ IsSpace(Head(s)) THEN LStrip(Tail(s)) ELSE s

RECURSIVE RStrip(_)
RStrip(s) ==
    IF s # <<>> /\ IsSpace(Last(s)) THEN RStrip(SubSeq(s, 1, Len(s) - 1)) ELSE s

\* str.strip()
Strip(s) == RStrip(LStrip(s))

\* str.find('\n'), 1-based: the position of the first line end, 0 when none
\* (Python's obj_end is this position minus one, -1 when none).
RECURSIVE FindFrom(_, _)
FindFrom(s, i) ==
    IF i > Len(s) THEN 0 ELSE IF s[i] = NL THEN i ELSE FindFrom(s, i + 1)

FindNL(s) == FindFrom(s, 1)

\* json.loads on a stripped, non-empty text.
JsonLoads(s) ==
    IF s = <<"n">> THEN None
    ELSE IF Len(s) = 3 /\ s[1] = "{" /\ s[3] = "}" /\ s[2] \in {"r", "l", "g"}
         THEN CASE s[2] = "r" -> DictResult
                [] s[2] = "l" -> DictLibrary
                [] OTHER -> DictLog
    ELSE JsonDecodeError

IsDict(v) == v \in {DictResult, DictLibrary, DictLog}

\* isinstance(json_data, dict) and ('library' in json_data or 'result' in json_data)
IsTerminal(v) == IsDict(v) /\ (v = DictLibrary \/ v = DictResult)

\* The text of a sequence of lines, each followed by its line end.
RECURSIVE Flat(_)
Flat(ls) == IF ls = <<>> THEN <<>> ELSE Head(ls) \o <<NL>> \o Flat(Tail(ls))


\* ------------------------------------------------- the line-splitting passes
\* The inner loop of the select reader (lines 140-163): complete lines are
\* taken off the buffer one by one until none is left or a terminal object
\* has been decoded.  After a line that fails to decode, line 162 cuts
\* obj_end+1 characters off the buffer a second time.
RECURSIVE ExtractLines(_, _)
ExtractLines(buf, out) ==
    LET pos == FindNL(buf) IN
    IF pos = 0 THEN [buffer |-> buf, output |-> out]
    ELSE LET json_str == Strip(SubSeq(buf, 1, pos - 1))
             rest == Drop(buf, pos)
         IN  IF json_str = <<>> THEN ExtractLines(rest, out)
             ELSE IF JsonLoads(json_str) = JsonDecodeError
                  THEN ExtractLines(Drop(rest, pos), out)
             ELSE IF IsTerminal(JsonLoads(json_str))
                  THEN [buffer |-> rest, output |-> Append(out, JsonLoads(json_str))]
             ELSE ExtractLines(rest, Append(out, JsonLoads(json_str)))

\* str.splitlines(): the text cut at its line ends; a last line with no
\* line end is kept, an empty tail is not.
RECURSIVE SplitLines(_)
SplitLines(s) ==
    IF s = <<>> THEN <<>>
    ELSE LET pos == FindNL(s) IN
         IF pos = 0 THEN <<s>>
         ELSE <<SubSeq(s, 1, pos - 1)>> \o SplitLines(Drop(s, pos))

\* The loop of the final drain (lines 173-179): every line that decodes is
\* appended, the others are passed over; no terminal test.
RECURSIVE DecodeAll(_, _)
DecodeAll(ls, out) ==
    IF ls = <<>> THEN out
    ELSE LET line == Strip(Head(ls)) IN
         IF line = <<>> \/ JsonLoads(line) = JsonDecodeError
         THEN DecodeAll(Tail(ls), out)
         ELSE DecodeAll(Tail(ls), Append(out, JsonLoads(line)))

\* The final drain (lines 169-179) on the text still in the pipe.
FinalDrain(buf, remaining, out) ==
    IF remaining # <<>> THEN DecodeAll(SplitLines(buf \o remaining), out) ELSE out

\* A selector that returns the first decoded value instead of the last.
SelectResponseFirst(out) == IF out # <<>> THEN out[1] ELSE None

\* The response selector (lines 246-253).
SelectResponse(out) == IF out # <<>> THEN Last(out) ELSE None

\* ------------------------------------------------- the tool-level values
\* The values the tool-level operations handle (decoded JSON, arguments):
\* each is a record whose one field is named by its Python type.  A str is
\* a sequence of characters, a list a sequence of values, a dict a function
\* from keys (strs) to values.
PyNone == [None |-> <<>>]
PyStr(s) == [str |-> s]
PyInt(n) == [int |-> n]
PyList(l) == [list |-> l]
PyDict(f) == [dict |-> f]

Type(x) == CHOOSE t \in DOMAIN x : TRUE
Val(x) == x[Type(x)]

\* The text json.dumps makes of a value: told by the value it serializes.
JsonDumps(x) == [json |-> x]

\* A key that a mapping does not have.
Absent == [absent |-> <<>>]
\* mapping.get(key, default), told by what the mapping holds under the key.
GetOr(held, default) == IF held = Absent THEN default ELSE held

\* Python's truth value of a value ("if not response", "if resolved_id").
Truthy(x) ==
    IF Type(x) = "None" THEN FALSE
    ELSE IF Type(x) = "int" THEN Val(x) # 0
    ELSE IF Type(x) = "dict" THEN DOMAIN Val(x) # {}
    ELSE Val(x) # <<>>

\* Python's "a or b".
PyOr(a, b) == IF Truthy(a) THEN a ELSE b

\* a in b, for two strs.
IsSubstr(a, b) == \E i \in 0..(Len(b) - Len(a)) : SubSeq(b, i + 1, i + Len(a)) = a

\* Python's "key in x", key a str: [exc, value].
PyIn(key, x) ==
    IF Type(x) = "dict" THEN [exc |-> "", value |-> key \in DOMAIN Val(x)]
    ELSE IF Type(x) = "list" THEN [exc |-> "", value |-> \E i \in 1..Len(Val(x)) : Val(x)[i] = PyStr(key)]
    ELSE IF Type(x) = "str" THEN [exc |-> "", value |-> IsSubstr(key, Val(x))]
    ELSE [exc |-> "TypeError", value |-> FALSE]

\* Python's x.get(key, default): only a dict has it.
PyGet(x, key, default) ==
    IF Type(x) # "dict" THEN [exc |-> "AttributeError", value |-> PyNone]
    ELSE [exc |-> "", value |-> IF key \in DOMAIN Val(x) THEN Val(x)[key] ELSE default]

\* Python's max(a, b): b when b > a, else a.
PyMax(a, b) == IF b > a THEN b ELSE a

\* The keys.
K_result == <<"r", "e", "s", "u", "l", "t">>
K_library == <<"l", "i", "b", "r", "a", "r", "y">>
K_snippets == <<"s", "n", "i", "p", "p", "e", "t", "s">>
K_totalTokens == <<"t", "o", "t", "a", "l", "T", "o", "k", "e", "n", "s">>
K_lastUpdated == <<"l", "a", "s", "t", "U", "p", "d", "a", "t", "e", "d">>
K_content == <<"c", "o", "n", "t", "e", "n", "t">>
K_log == <<"l", "o", "g">>

\* A body of resolve_library_id that returns the whole response.
ResolveTryWhole(resp) == [exc |-> "", value |-> resp]

\* The body of resolve_library_id after the bridge call (lines 281-291).
ResolveTry(resp) ==
    IF ~Truthy(resp) THEN [exc |-> "", value |-> PyNone]
    ELSE IF PyIn(K_result, resp).exc # "" THEN [exc |-> PyIn(K_result, resp).exc, value |-> PyNone]
    ELSE IF ~PyIn(K_result, resp).value THEN [exc |-> "", value |-> PyNone]
    ELSE PyGet(resp, K_result, PyNone)

\* A handler that lets the exception out.
HandlerReraises(r) == r

\* The handlers "except Exception" of resolve_library_id (lines 293-295)
\* and of fetch_documentation (lines 355-357): None is returned.
Handler(r) == IF r.exc # "" THEN [exc |-> "", value |-> PyNone] ELSE r

\* A budget sent as it was requested.
TokensSentRaw(n) == n

\* The floor of the token budget (line 328).
TokensSent(n) == PyMax(n, TOKEN_FLOOR)

\* A bundle without defaults: the response's own fields and the content.
BundleRaw(resp) ==
    PyDict([k \in DOMAIN Val(resp) \cup {K_content} |->
        IF k = K_content THEN JsonDumps(resp) ELSE Val(resp)[k]])

\* The bundle of fetch_documentation (lines 343-349).
Bundle(resp) ==
    PyDict([k \in {K_content, K_library, K_snippets, K_totalTokens, K_lastUpdated} |->
        IF k = K_content THEN JsonDumps(resp)
        ELSE IF k = K_library THEN PyGet(resp, K_library, PyStr(<<>>)).value
        ELSE IF k = K_snippets THEN PyGet(resp, K_snippets, PyList(<<>>)).value
        ELSE IF k = K_totalTokens THEN PyGet(resp, K_totalTokens, PyInt(0)).value
        ELSE PyGet(resp, K_lastUpdated, PyStr(<<>>)).value])

\* The body of fetch_documentation after the bridge call (lines 337-353).
FetchTry(resp) ==
    IF ~Truthy(resp) THEN [exc |-> "", value |-> PyNone]
    ELSE IF PyGet(resp, K_library, PyStr(<<>>)).exc # ""
         THEN [exc |-> PyGet(resp, K_library, PyStr(<<>>)).exc, value |-> PyNone]
    ELSE [exc |-> "", value |-> Bundle(resp)]

\* A resolution whose value is used whatever it is.
ChooseIdAlways(r, id) == r.value

\* The library_id after the resolution (lines 312-320): the resolved
\* identifier when resolve_library_id returned a truthy value, else the
\* input, also when resolve_library_id raised.
ChooseId(r, id) == IF r.exc = "" /\ Truthy(r.value) THEN r.value ELSE id

\* A test that looks at the first character only.
HasSlashFirst(x) == Val(x) # <<>> /\ Head(Val(x)) = "/"

\* '/' in library_id (line 310).
HasSlash(x) == IsSubstr(<<"/">>, Val(x))

\* ------------------------------------------------------------------ state
VARIABLES
    pc,            \* the bridge's position in communicate_with_mcp_server
    timeout,       \* the timeout argument, in seconds
    elapsed,       \* the seconds since the running wait began (start_time, or the
                   \* start of process.wait), counted up to the limit of that wait
    reader,        \* which reader runs: "none", "select", "unittest", "fallback"
    child,         \* "none", "running", "exited", "killed"
    childWaitsEof, \* the child does nothing before it sees end-of-input on stdin
    stdinClosed,   \* the request was written and stdin closed
    stdinWritten,  \* the texts written to the child's stdin, one per write
    written,       \* the lines the child has written on stdout, in order
    stdoutPipe,    \* text written on stdout and not yet read by the bridge
    errWritten,    \* the lines the child has written on stderr
    stderrPipe,    \* lines written on stderr and not yet read by the bridge
    buffer,        \* the select reader's text buffer
    output,        \* the decoded values, in order
    stop,          \* why the read loop ended: "", "terminal", "timeout", "eof", "exit"
    error,         \* the exception the outer handler caught: "" when none
    reaps,         \* how many times process.terminate() was called
    result,        \* the value returned
    outcome,       \* "pending", "returned" or "raised"
    now,           \* the seconds since Popen, for a child that keeps to a timetable
    exitAt,        \* the second at which that child exits by itself, or Stays,
                   \* AtEndOfInput, or NotStarted
    run,           \* 1 in the first call of the bridge, 2 in a second one
    first,         \* what the first call was given and what it returned
    op,            \* the tool-level operation called: "none", "resolve", "fetch"
    tpc,           \* its position: "idle", "bridge", "exchange", "returned", "done";
                   \* "refused" when main has ended without calling it
    stage,         \* the exchange it is at: "", "resolve", "docs"
    original,      \* the library_name / library_id argument
    library_id,    \* fetch_documentation's variable library_id
    tokens,        \* the tokens argument
    requests,      \* the request_data handed to the bridge, in order
    response,      \* what the last bridge call returned
    popens,        \* how many times subprocess.Popen was called
    spawns,        \* how many children were started
    toolResult,    \* what the operation returned
    toolExc,       \* the exception that left the operation: "" when none
    caught,        \* the exception of resolve_library_id that fetch_documentation
                   \* caught: "" when none
    topic,         \* the topic argument
    custom_timeout, \* the custom_timeout argument
    config,        \* what load_config returns during the operation
    timeouts,      \* the timeout handed to the bridge, for each request in order
    cli,           \* the command line main was run with, NoCli when the
                   \* operation was called directly
    callPc,        \* of each of two concurrent calls: its position
    bridgeCalls,   \* of each call: how many bridge calls it has begun
    process,       \* of each call: its local variable process (0: not bound)
    callOutput,    \* of each call: the values its bridge call has decoded
    callResult,    \* of each call: what its last bridge call returned
    children,      \* every child started so far, in the order of their start
    touched,       \* the last step of a call on a child: which call did what
                   \* to which child
    sdkPc,         \* the SDK operation's position: "idle", "called", "returned", "done"
    sdkOp,         \* the SDK operation called: "none", "resolve", "fetch"
    sdkGiven,      \* the arguments it was called with
    toolCalls,     \* the calls of call_mcp_tool it made, in order
    sdkToolResult, \* what call_mcp_tool returned
    sdkResult,     \* what the SDK operation returned
    cfgPc,         \* a load_config call's position: "idle", "done"
    cfgOp,         \* which load_config was called: "none", "client", "mcp_client"
    localFile,     \* ./.aider-mcp-client/config.json
    homeFile,      \* ~/.aider-mcp-client/config.json
    config_path,   \* the config_path argument of mcp_client's load_config
    pathFile,      \* the file at config_path
    loaded,        \* what load_config returned or raised
    sessPc,        \* call_mcp_tool's position: "idle", the step it awaits, "done"
    sessAsked,     \* the tool_name argument
    sessTimeout,   \* the timeout argument
    sessTools,     \* the names of the tools the server's list_tools answer held
    sessCalled,    \* the tool names call_tool was issued with, in order
    sessLog,       \* what the call has done to the session so far, in order
    sessElapsed,   \* the time since the call began
    sessCallAt,    \* the time at which call_tool was issued
    sessResult,    \* what the call is going to return, or has returned
    stdoutShut     \* the child has closed its stdout and is still running

vars == <<pc, timeout, elapsed, reader, child, childWaitsEof, stdinClosed, stdinWritten,
          written, stdoutPipe, errWritten, stderrPipe, buffer, output, stop,
          error, reaps, result, outcome, now, exitAt, run, first,
          op, tpc, stage, original, library_id, tokens, requests, response,
          popens, spawns, toolResult, toolExc, caught,
          topic, custom_timeout, config, timeouts, cli,
          callPc, bridgeCalls, process, callOutput, callResult, children, touched,
          sdkPc, sdkOp, sdkGiven, toolCalls, sdkToolResult, sdkResult,
          cfgPc, cfgOp, localFile, homeFile, config_path, pathFile, loaded,
          sessPc, sessAsked, sessTimeout, sessTools, sessCalled, sessLog,
          sessElapsed, sessCallAt, sessResult, stdoutShut>>

childVars == <<child, childWaitsEof, written, stdoutPipe, errWritten, stderrPipe>>
readVars == <<buffer, output, stop>>
endVars == <<error, reaps, result, outcome>>
pairVars == <<now, exitAt, run, first>>
toolVars == <<op, tpc, stage, original, library_id, tokens, requests, response,
              popens, spawns, toolResult, toolExc, caught,
              topic, custom_timeout, config, timeouts, cli>>
callVars == <<callPc, bridgeCalls, process, callOutput, callResult, children, touched>>
sdkVars == <<sdkPc, sdkOp, sdkGiven, toolCalls, sdkToolResult, sdkResult>>
configVars == <<cfgPc, cfgOp, localFile, homeFile, config_path, pathFile, loaded>>
sessVars == <<sessPc, sessAsked, sessTimeout, sessTools, sessCalled, sessLog,
              sessElapsed, sessCallAt, sessResult>>
otherVars == <<sdkVars, configVars, sessVars, stdoutShut>>
bridgeVars == <<pc, timeout, elapsed, reader, stdinClosed, stdinWritten, childVars, readVars, endVars>>

\* When a child that keeps to a timetable exits, other than at a second
\* 1..MaxExit: it has not started yet; it stays until it is signalled; it
\* exits when it sees the end of input on stdin.
NotStarted == -1
Stays == 0
AtEndOfInput == -2

\* No first call yet.
NoCall == [written |-> <<>>, errWritten |-> <<>>, exitAt |-> NotStarted,
           reader |-> "none", error |-> "", result |-> None]

\* The tool-level operations that run at the same time.
Calls == {1, 2}
\* A decoded value together with the child whose output it was decoded
\* from; NoValue is the None of a call that decoded nothing.
NoValue == [value |-> None, of |-> 0]
\* No call has taken a step on a child yet.
NoTouch == [call |-> 0, pid |-> 0, op |-> ""]

\* A configuration, as far as timeouts go: what it holds under
\* mcpServers.context7.timeout and under mcp_server.timeout.  The built-in
\* default (lines 33-42) names 30 for context7 and has no mcp_server.
DefaultTimeouts == [context7 |-> PyInt(DEFAULT_TIMEOUT), mcp_server |-> Absent]
\* The operation was not called by main.
NoCli == [command |-> "", timeout |-> PyNone]

\* No SDK operation has been called.
NoArgs == [id |-> PyStr(<<>>), topic |-> PyStr(<<>>), tokens |-> 0, timeout |-> 0]

\* A file: it does not exist; it exists and cannot be opened or read
\* (OSError); its bytes are not UTF-8 (UnicodeDecodeError); its text is not
\* JSON (JSONDecodeError); or its text is JSON and decodes to a value.
Missing == [file |-> "missing", value |-> PyNone]
Unreadable == [file |-> "unreadable", value |-> PyNone]
NotUtf8 == [file |-> "not utf-8", value |-> PyNone]
NotJson == [file |-> "not json", value |-> PyNone]
Holds(v) == [file |-> "json", value |-> v]

\* What a load_config call ends with: a value returned or an exception raised.
Returned(v) == [exc |-> "", value |-> v]
Raised(e) == [exc |-> e, value |-> PyNone]

Timeouts == 1..MaxTimeout

Init ==
    /\ pc = "idle"
    /\ timeout \in Timeouts
    /\ elapsed = 0
    /\ reader = "none"
    /\ child = "none"
    /\ childWaitsEof = FALSE
    /\ stdinClosed = FALSE
    /\ stdinWritten = <<>>
    /\ written = <<>>
    /\ stdoutPipe = <<>>
    /\ errWritten = <<>>
    /\ stderrPipe = <<>>
    /\ buffer = <<>>
    /\ output = <<>>
    /\ stop = ""
    /\ error = ""
    /\ reaps = 0
    /\ result = None
    /\ outcome = "pending"
    /\ now = 0
    /\ exitAt = NotStarted
    /\ run = 1
    /\ first = NoCall
    /\ op = "none"
    /\ tpc = "idle"
    /\ stage = ""
    /\ original = PyNone
    /\ library_id = PyNone
    /\ tokens = 0
    /\ requests = <<>>
    /\ response = PyNone
    /\ popens = 0
    /\ spawns = 0
    /\ toolResult = PyNone
    /\ toolExc = ""
    /\ caught = ""
    /\ topic = PyStr(<<>>)
    /\ custom_timeout = PyNone
    /\ config = DefaultTimeouts
    /\ timeouts = <<>>
    /\ cli = NoCli
    /\ callPc = [c \in Calls |-> "idle"]
    /\ bridgeCalls = [c \in Calls |-> 0]
    /\ process = [c \in Calls |-> 0]
    /\ callOutput = [c \in Calls |-> <<>>]
    /\ callResult = [c \in Calls |-> NoValue]
    /\ children = <<>>
    /\ touched = NoTouch
    /\ sdkPc = "idle"
    /\ sdkOp = "none"
    /\ sdkGiven = NoArgs
    /\ toolCalls = <<>>
    /\ sdkToolResult = PyNone
    /\ sdkResult = PyNone
    /\ cfgPc = "idle"
    /\ cfgOp = "none"
    /\ localFile = Missing
    /\ homeFile = Missing
    /\ config_path = PyNone
    /\ pathFile = Missing
    /\ loaded = Raised("")
    /\ sessPc = "idle"
    /\ sessAsked = ""
    /\ sessTimeout = 0
    /\ sessTools = {}
    /\ sessCalled = <<>>
    /\ sessLog = <<>>
    /\ sessElapsed = 0
    /\ sessCallAt = 0
    /\ sessResult = PyNone
    /\ stdoutShut = FALSE

Alive == child = "running"

\* The child's end of stdout and stderr is closed once the child is gone.
AtEof == ~Alive

\* A read of the child's stdout finds its end once the child is gone or has
\* closed its stdout.
OutEof == AtEof \/ stdoutShut


\* ----------------------------------------------------------------- bridge
\* An outer handler that lets the error out instead of returning None.
ExceptRaises(kind) ==
    /\ pc' = "done"
    /\ error' = kind
    /\ result' = result
    /\ outcome' = "raised"

\* A handler that answers with a mapping that describes the error.
ExceptAnswers(kind) ==
    /\ pc' = "done"
    /\ error' = kind
    /\ result' = DictLog
    /\ outcome' = "returned"

\* The outer handler (lines 255-257): the error is logged and None returned.
Except(kind) ==
    /\ pc' = "done"
    /\ error' = kind
    /\ result' = None
    /\ outcome' = "returned"

\* subprocess.Popen (lines 73-80), then start_time (line 83).
Spawn ==
    /\ pc = "idle"
    /\ \/ /\ Except("spawn")
          /\ UNCHANGED <<child, childWaitsEof, elapsed>>
       \/ /\ child' = "running"
          /\ childWaitsEof' \in BOOLEAN
          /\ elapsed' = 0
          /\ pc' = "startup"
          /\ UNCHANGED <<error, result, outcome>>
    /\ UNCHANGED <<timeout, reader, stdinClosed, stdinWritten, written, stdoutPipe, errWritten,
                   stderrPipe, buffer, output, stop, reaps>>
    /\ UNCHANGED <<pairVars, toolVars, callVars, otherVars>>

\* The head of the startup loop (line 86).
StartupCheck ==
    /\ pc = "startup"
    /\ pc' = IF elapsed < STARTUP_WAIT THEN "startup_readline" ELSE "send"
    /\ UNCHANGED <<timeout, elapsed, reader, stdinClosed, stdinWritten, childVars, readVars, endVars>>
    /\ UNCHANGED <<pairVars, toolVars, callVars, otherVars>>

\* process.stderr.readline() (lines 88-95): it waits for a line or for the
\* end of the stream; the banner ends the loop, anything else is followed
\* by a sleep and the next turn.
StartupReadline ==
    /\ pc = "startup_readline"
    /\ stderrPipe # <<>> \/ AtEof
    /\ IF stderrPipe # <<>>
       THEN /\ stderrPipe' = Tail(stderrPipe)
            /\ pc' = IF Head(stderrPipe) = Banner THEN "send" ELSE "startup"
       ELSE /\ stderrPipe' = stderrPipe
            /\ pc' = "startup"
    /\ UNCHANGED <<timeout, elapsed, reader, stdinClosed, stdinWritten, child, childWaitsEof,
                   written, stdoutPipe, errWritten, readVars, endVars>>
    /\ UNCHANGED <<pairVars, toolVars, callVars, otherVars>>

\* The strs a request carries, as far as the text written for it goes: a
\* str with a line end in it, the one case in which the text of the request
\* and the line written for it differ in their line ends.
RequestMenu == {<<"a", NL, "b">>}

\* json.dumps of a str: control characters are written as escapes, so a line
\* end becomes the two characters backslash and n (one symbol here).
ESC_NL == "\\n"
RECURSIVE JsonEscape(_)
JsonEscape(s) ==
    IF s = <<>> THEN <<>>
    ELSE (IF Head(s) = NL THEN <<ESC_NL>> ELSE <<Head(s)>>) \o JsonEscape(Tail(s))

\* A serialization that copies the characters of a str as they are.
RequestLineRaw(request_data) == <<"{">> \o request_data \o <<"}">> \o <<NL>>

\* request_json + '\n' (lines 101-103).
RequestLine(request_data) == <<"{">> \o JsonEscape(request_data) \o <<"}">> \o <<NL>>

\* json.dumps, write, flush and close of stdin (lines 101-105), then
\* start_time, output and buffer (lines 108-110) and the choice of the
\* reader (line 115).  json.dumps raises on a request that does not
\* serialize; the flush raises BrokenPipeError when the child is gone.
SendRequest ==
    /\ pc = "send"
    /\ \/ /\ Except("serialize")
          /\ UNCHANGED <<elapsed, reader, stdinClosed, stdinWritten>>
       \/ /\ ~Alive
          /\ Except("pipe")
          /\ UNCHANGED <<elapsed, reader, stdinClosed, stdinWritten>>
       \/ /\ Alive
          /\ \E request_data \in RequestMenu :
                stdinWritten' = Append(stdinWritten, RequestLine(request_data))
          /\ stdinClosed' = TRUE
          /\ elapsed' = 0
          /\ reader' \in {"select", "unittest"}
          /\ pc' = IF reader' = "select" THEN "select_setup" ELSE "rl_head"
          /\ UNCHANGED <<error, result, outcome>>
    /\ UNCHANGED <<timeout, childVars, readVars, reaps>>
    /\ UNCHANGED <<pairVars, toolVars, callVars, otherVars>>

\* The set-up of the select reader (lines 116-127: the imports of select
\* and fcntl, fileno() and the two fcntl calls).  An exception here is
\* caught at line 205 and the fallback loop runs instead, with the same
\* start_time.
SelectSetup ==
    /\ pc = "select_setup"
    /\ \/ /\ pc' = "select"
          /\ reader' = reader
       \/ /\ pc' = "rl_head"
          /\ reader' = "fallback"
    /\ UNCHANGED <<timeout, elapsed, stdinClosed, stdinWritten, childVars, readVars, endVars>>
    /\ UNCHANGED <<pairVars, toolVars, callVars, otherVars>>

\* The select reader, one turn of its loop up to the liveness check
\* (lines 129-163).  The loop ends when the deadline has passed, or when
\* the read returns nothing (end of file).  A read returns what the pipe
\* holds, up to CHUNK characters; while the child is running a write of its
\* may have reached the pipe only in part.
SelectDeadline ==
    /\ pc = "select"
    /\ ~(elapsed < timeout)
    /\ stop' = "timeout"
    /\ pc' = "terminate"
    /\ UNCHANGED <<timeout, elapsed, reader, stdinClosed, stdinWritten, childVars, buffer, output, endVars>>
    /\ UNCHANGED <<pairVars, toolVars, callVars, otherVars>>

SelectRead ==
    /\ pc = "select"
    /\ elapsed < timeout
    /\ stdoutPipe # <<>>
    /\ \E n \in 1..Min(CHUNK, Len(stdoutPipe)) :
          /\ Alive \/ n = Min(CHUNK, Len(stdoutPipe))
          /\ LET r == ExtractLines(buffer \o Take(stdoutPipe, n), output) IN
                /\ buffer' = r.buffer
                /\ output' = r.output
          /\ stdoutPipe' = Drop(stdoutPipe, n)
    /\ pc' = "poll"
    /\ UNCHANGED <<timeout, elapsed, reader, stdinClosed, stdinWritten, child, childWaitsEof,
                   written, errWritten, stderrPipe, stop, endVars>>
    /\ UNCHANGED <<pairVars, toolVars, callVars, otherVars>>

\* A select reader that goes on polling at the end of the stream.
SelectEofPollsOn ==
    /\ pc = "select"
    /\ elapsed < timeout
    /\ stdoutPipe = <<>>
    /\ OutEof
    /\ pc' = "poll"
    /\ UNCHANGED <<timeout, elapsed, reader, stdinClosed, stdinWritten, childVars, readVars, endVars>>
    /\ UNCHANGED <<pairVars, toolVars, callVars, otherVars>>

SelectEof ==
    /\ pc = "select"
    /\ elapsed < timeout
    /\ stdoutPipe = <<>>
    /\ OutEof
    /\ stop' = "eof"
    /\ pc' = "terminate"
    /\ UNCHANGED <<timeout, elapsed, reader, stdinClosed, stdinWritten, childVars, buffer, output, endVars>>
    /\ UNCHANGED <<pairVars, toolVars, callVars, otherVars>>

SelectIdle ==
    /\ pc = "select"
    /\ elapsed < timeout
    /\ stdoutPipe = <<>>
    /\ ~OutEof
    /\ pc' = "poll"
    /\ UNCHANGED <<timeout, elapsed, reader, stdinClosed, stdinWritten, childVars, readVars, endVars>>
    /\ UNCHANGED <<pairVars, toolVars, callVars, otherVars>>

\* process.poll() of the select reader (lines 166-180): a child that has
\* exited ends the loop after the final drain.
SelectPoll ==
    /\ pc = "poll"
    /\ IF ~Alive
       THEN /\ output' = FinalDrain(buffer, stdoutPipe, output)
            /\ buffer' = buffer \o stdoutPipe
            /\ stdoutPipe' = <<>>
            /\ stop' = "exit"
            /\ pc' = "terminate"
       ELSE /\ pc' = "select"
            /\ UNCHANGED <<stdoutPipe, readVars>>
    /\ UNCHANGED <<timeout, elapsed, reader, stdinClosed, stdinWritten, child, childWaitsEof,
                   written, errWritten, stderrPipe, endVars>>
    /\ UNCHANGED <<pairVars, toolVars, callVars, otherVars>>

\* A loop head that does not look at the time.
ReadlineCheckNoDeadline ==
    /\ pc = "rl_head"
    /\ pc' = "rl_read"
    /\ UNCHANGED <<timeout, elapsed, reader, stdinClosed, stdinWritten, childVars, readVars, endVars>>
    /\ UNCHANGED <<pairVars, toolVars, callVars, otherVars>>

\* The readline reader (lines 183-204, and its copy the fallback, lines
\* 208-225): the head of its loop.
ReadlineCheck ==
    /\ pc = "rl_head"
    /\ IF elapsed < timeout
       THEN /\ pc' = "rl_read"
            /\ stop' = stop
       ELSE /\ pc' = "terminate"
            /\ stop' = "timeout"
    /\ UNCHANGED <<timeout, elapsed, reader, stdinClosed, stdinWritten, childVars, buffer, output, endVars>>
    /\ UNCHANGED <<pairVars, toolVars, callVars, otherVars>>

\* process.stdout.readline() and the handling of the line (lines 184-199,
\* 209-221): the call waits for a whole line or for the end of the stream.
Readline ==
    /\ pc = "rl_read"
    /\ FindNL(stdoutPipe) > 0 \/ OutEof
    /\ LET pos == FindNL(stdoutPipe)
           line == IF pos > 0 THEN Take(stdoutPipe, pos) ELSE stdoutPipe
           text == Strip(line)
       IN  /\ stdoutPipe' = Drop(stdoutPipe, Len(line))
           /\ IF line = <<>>
              THEN /\ stop' = "eof"
                   /\ pc' = "terminate"
                   /\ output' = output
              ELSE IF text = <<>>
              THEN /\ pc' = "rl_poll"
                   /\ UNCHANGED <<stop, output>>
              ELSE IF JsonLoads(text) = JsonDecodeError
              THEN /\ pc' = "rl_head"
                   /\ UNCHANGED <<stop, output>>
              ELSE /\ output' = Append(output, JsonLoads(text))
                   /\ IF IsTerminal(JsonLoads(text))
                      THEN /\ stop' = "terminal"
                           /\ pc' = "terminate"
                      ELSE /\ stop' = stop
                           /\ pc' = "rl_poll"
    /\ UNCHANGED <<timeout, elapsed, reader, stdinClosed, stdinWritten, child, childWaitsEof,
                   written, errWritten, stderrPipe, buffer, endVars>>
    /\ UNCHANGED <<pairVars, toolVars, callVars, otherVars>>

\* process.poll() of the readline reader (lines 201-204, 223-225).
ReadlinePoll ==
    /\ pc = "rl_poll"
    /\ IF ~Alive
       THEN /\ stop' = "exit"
            /\ pc' = "terminate"
       ELSE /\ stop' = stop
            /\ pc' = "rl_head"
    /\ UNCHANGED <<timeout, elapsed, reader, stdinClosed, stdinWritten, childVars, buffer, output, endVars>>
    /\ UNCHANGED <<pairVars, toolVars, callVars, otherVars>>

\* An exception of readline in the fallback loop (line 209): nothing
\* catches it before the outer handler.
FallbackFault ==
    /\ pc = "rl_read"
    /\ reader = "fallback"
    /\ Except("io")
    /\ UNCHANGED <<timeout, elapsed, reader, stdinClosed, stdinWritten, childVars, readVars, reaps>>
    /\ UNCHANGED <<pairVars, toolVars, callVars, otherVars>>

\* A teardown that is left out: the response is selected at once.
TerminateSkipped ==
    /\ pc = "terminate"
    /\ pc' = "respond"
    /\ UNCHANGED <<timeout, elapsed, reader, stdinClosed, stdinWritten, childVars, readVars, endVars>>
    /\ UNCHANGED <<pairVars, toolVars, callVars, otherVars>>

\* process.terminate() (line 229).
Terminate ==
    /\ pc = "terminate"
    /\ reaps' = reaps + 1
    /\ elapsed' = 0
    /\ pc' = "wait"
    /\ UNCHANGED <<timeout, reader, stdinClosed, stdinWritten, childVars, readVars, error, result, outcome>>
    /\ UNCHANGED <<pairVars, toolVars, callVars, otherVars>>

\* process.wait(timeout=2) (lines 230-234): it returns when the child has
\* exited; when the wait expires the child is killed.
WaitExited ==
    /\ pc = "wait"
    /\ ~Alive
    /\ pc' = "stderr_read"
    /\ elapsed' = 0
    /\ UNCHANGED <<timeout, reader, stdinClosed, stdinWritten, childVars, readVars, endVars>>
    /\ UNCHANGED <<pairVars, toolVars, callVars, otherVars>>

\* A kill that does not wait for the wait to expire.
WaitExpiredAtOnce ==
    /\ pc = "wait"
    /\ Alive
    /\ child' = "killed"
    /\ pc' = "stderr_read"
    /\ elapsed' = 0
    /\ UNCHANGED <<timeout, reader, stdinClosed, stdinWritten, childWaitsEof, written,
                   stdoutPipe, errWritten, stderrPipe, readVars, endVars>>
    /\ UNCHANGED <<pairVars, toolVars, callVars, otherVars>>

WaitExpired ==
    /\ pc = "wait"
    /\ Alive
    /\ ~(elapsed < TERM_WAIT)
    /\ child' = "killed"
    /\ pc' = "stderr_read"
    /\ elapsed' = 0
    /\ UNCHANGED <<timeout, reader, stdinClosed, stdinWritten, childWaitsEof, written,
                   stdoutPipe, errWritten, stderrPipe, readVars, endVars>>
    /\ UNCHANGED <<pairVars, toolVars, callVars, otherVars>>

\* process.stderr.read() (lines 237-243): it reads to the end of the
\* stream; the text is only logged.
StderrRead ==
    /\ pc = "stderr_read"
    /\ AtEof
    /\ stderrPipe' = <<>>
    /\ pc' = "respond"
    /\ UNCHANGED <<timeout, elapsed, reader, stdinClosed, stdinWritten, child, childWaitsEof,
                   written, stdoutPipe, errWritten, readVars, endVars>>
    /\ UNCHANGED <<pairVars, toolVars, callVars, otherVars>>

\* The return (lines 246-253).
Respond ==
    /\ pc = "respond"
    /\ result' = SelectResponse(output)
    /\ outcome' = "returned"
    /\ pc' = "done"
    /\ UNCHANGED <<timeout, elapsed, reader, stdinClosed, stdinWritten, childVars, readVars, error, reaps>>
    /\ UNCHANGED <<pairVars, toolVars, callVars, otherVars>>

\* ------------------------------------------------------------ environment
\* The positions before the read loop: stderr is read line by line.
BeforeLoop == {"startup", "startup_readline", "send"}

\* The positions of the read loop.
ReadLoop == {"select_setup", "select", "poll", "rl_head", "rl_read", "rl_poll"}

\* The positions after the read loop: nothing is read from stdout any more.
AfterLoop == {"terminate", "wait", "stderr_read", "respond", "done"}

ChildMayAct == Alive /\ pc # "done" /\ (childWaitsEof => stdinClosed)

ChildWriteStdout ==
    /\ ChildMayAct
    /\ pc \notin AfterLoop
    /\ Len(written) < MaxLines
    /\ ~stdoutShut
    /\ \E l \in Menu :
          /\ written' = Append(written, l)
          /\ stdoutPipe' = stdoutPipe \o l \o <<NL>>
    /\ UNCHANGED <<pc, timeout, elapsed, reader, child, childWaitsEof, stdinClosed, stdinWritten,
                   errWritten, stderrPipe, readVars, endVars>>
    /\ UNCHANGED <<pairVars, toolVars, callVars, otherVars>>

ChildWriteStderr ==
    /\ ChildMayAct
    /\ pc \in BeforeLoop
    /\ Len(errWritten) < MaxErrLines
    /\ \E e \in ErrMenu :
          /\ errWritten' = Append(errWritten, e)
          /\ stderrPipe' = Append(stderrPipe, e)
    /\ UNCHANGED <<pc, timeout, elapsed, reader, child, childWaitsEof, stdinClosed, stdinWritten,
                   written, stdoutPipe, readVars, endVars>>
    /\ UNCHANGED <<pairVars, toolVars, callVars, otherVars>>

\* The child exits, of its own accord or on the signal of terminate().
ChildExit ==
    /\ ChildMayAct
    /\ child' = "exited"
    /\ UNCHANGED <<pc, timeout, elapsed, reader, childWaitsEof, stdinClosed, stdinWritten, written,
                   stdoutPipe, errWritten, stderrPipe, readVars, endVars>>
    /\ UNCHANGED <<pairVars, toolVars, callVars, otherVars>>

\* The limit the elapsed time is compared with at the bridge's position.
Limit ==
    IF pc \in {"startup", "startup_readline"} THEN STARTUP_WAIT
    ELSE IF pc \in ReadLoop THEN timeout
    ELSE IF pc = "wait" THEN TERM_WAIT
    ELSE 0

\* A second passes.
Tick ==
    /\ elapsed < Limit
    /\ elapsed' = elapsed + 1
    /\ UNCHANGED <<pc, timeout, reader, stdinClosed, stdinWritten, childVars, readVars, endVars>>
    /\ UNCHANGED <<pairVars, toolVars, callVars, otherVars>>

Bridge ==
    \/ Spawn
    \/ StartupCheck
    \/ StartupReadline
    \/ SendRequest
    \/ SelectSetup
    \/ SelectDeadline
    \/ SelectRead
    \/ SelectEof
    \/ SelectIdle
    \/ SelectPoll
    \/ ReadlineCheck
    \/ Readline
    \/ ReadlinePoll
    \/ FallbackFault
    \/ Terminate
    \/ WaitExited
    \/ WaitExpired
    \/ StderrRead
    \/ Respond

Next ==
    \/ Bridge
    \/ ChildWriteStdout
    \/ ChildWriteStderr
    \/ ChildExit
    \/ Tick

Spec == Init /\ [][Next]_vars

\* The calls whose child writes nothing on its stdout: it exits or not, and
\* may write on stderr before.  With nothing to read on stdout the bridge
\* takes no read of data and no poll after a line.  The bridge is a running
\* program and the clock goes on: a step of the bridge that stays possible
\* is taken, and a second that can pass passes.  Nothing is asked of the
\* child.
SilentBridge ==
    \/ Spawn
    \/ StartupCheck
    \/ StartupReadline
    \/ SendRequest
    \/ SelectSetup
    \/ SelectDeadline
    \/ SelectEof
    \/ SelectIdle
    \/ SelectPoll
    \/ ReadlineCheck
    \/ Readline
    \/ FallbackFault
    \/ Terminate
    \/ WaitExited
    \/ WaitExpired
    \/ StderrRead
    \/ Respond

SilentNext ==
    \/ SilentBridge
    \/ ChildWriteStderr
    \/ ChildExit
    \/ Tick

SpecSilent == Init /\ [][SilentNext]_vars /\ WF_vars(SilentBridge) /\ WF_vars(Tick)

\* A child whose lines are cut short by the second removal of line 162: a
\* line that does not decode, a line that does not decode either and ends
\* in a text that does ("xxn": cut by two characters it is "n"), a log line.
LineCut == <<"x", "x", "n">>
CutMenu == {LineBad, LineCut, LineLog}

\* The child writes one line of CutMenu on its stdout.
ChildWriteCut ==
    /\ ChildMayAct
    /\ pc \notin AfterLoop
    /\ Len(written) < MaxLines
    /\ ~stdoutShut
    /\ \E l \in CutMenu :
          /\ written' = Append(written, l)
          /\ stdoutPipe' = stdoutPipe \o l \o <<NL>>
    /\ UNCHANGED <<pc, timeout, elapsed, reader, child, childWaitsEof, stdinClosed, stdinWritten,
                   errWritten, stderrPipe, readVars, endVars>>
    /\ UNCHANGED <<pairVars, toolVars, callVars, otherVars>>

\* The child closes its stdout and goes on running.
ChildCloseStdout ==
    /\ ChildMayAct
    /\ pc \notin AfterLoop
    /\ ~stdoutShut
    /\ stdoutShut' = TRUE
    /\ UNCHANGED <<bridgeVars, pairVars, toolVars, callVars, sdkVars, configVars, sessVars>>

CutNext ==
    \/ Bridge
    \/ ChildWriteCut
    \/ ChildCloseStdout
    \/ ChildWriteStderr
    \/ ChildExit
    \/ Tick

SpecCutLines == Init /\ [][CutNext]_vars


\* ------------------------------------------------ two calls, one timetable
\* The bridge is called twice, each time with a child that keeps to a
\* timetable: as soon as it may act it writes its stdout lines and its
\* stderr lines, and it exits by itself at second exitAt, or when it sees
\* the end of input on stdin, or it stays until it is signalled.  The child of the second call writes the same stdout
\* lines and exits at the same second as the child of the first call; its
\* stderr lines are its own.  Time passes only while the bridge waits.
SeqsUpTo(S, n) == UNION {[1..k -> S] : k \in 0..n}

\* A step of the child is due: the bridge runs after it.
ExitDue ==
    \/ exitAt > 0 /\ now >= exitAt
    \/ exitAt = AtEndOfInput /\ stdinClosed

ChildDue == ChildMayAct /\ (exitAt = NotStarted \/ ExitDue)

TimedChildStart ==
    /\ ChildMayAct
    /\ exitAt = NotStarted
    /\ \E out \in SeqsUpTo(Menu, MaxLines), err \in SeqsUpTo(ErrMenu, MaxErrLines),
          x \in {AtEndOfInput, Stays} \cup 1..MaxExit :
          /\ run = 2 => out = first.written /\ x = first.exitAt
          /\ written' = out
          /\ stdoutPipe' = Flat(out)
          /\ errWritten' = err
          /\ stderrPipe' = err
          /\ exitAt' = x
    /\ UNCHANGED <<pc, timeout, elapsed, reader, child, childWaitsEof, stdinClosed, stdinWritten,
                   readVars, endVars, now, run, first, toolVars, callVars, otherVars>>

\* The child exits when its timetable says so, or on the signal of
\* terminate().
TimedChildExit ==
    /\ exitAt # NotStarted
    /\ ExitDue \/ pc = "wait"
    /\ ChildExit

\* A step of the bridge.  What the child wrote at its start is in the pipe
\* as a whole, so a read of the select reader returns all of it.
Timed(step) ==
    /\ ~ChildDue
    /\ step
    /\ pc = "select" => stdoutPipe' \in {stdoutPipe, <<>>}

TimedBridge ==
    \/ Timed(Spawn)
    \/ Timed(StartupCheck)
    \/ Timed(StartupReadline)
    \/ Timed(SendRequest)
    \/ Timed(SelectSetup)
    \/ Timed(SelectDeadline)
    \/ Timed(SelectRead)
    \/ Timed(SelectEof)
    \/ Timed(SelectIdle)
    \/ Timed(SelectPoll)
    \/ Timed(ReadlineCheck)
    \/ Timed(Readline)
    \/ Timed(ReadlinePoll)
    \/ Timed(FallbackFault)
    \/ Timed(Terminate)
    \/ Timed(WaitExited)
    \/ Timed(WaitExpired)
    \/ Timed(StderrRead)
    \/ Timed(Respond)

\* The bridge waits: in the sleep of the startup loop once stderr is at its
\* end (line 95), in stderr.readline() (line 89), in select (line 131), in
\* stdout.readline() (lines 184, 209) or in process.wait (line 231).
Waiting ==
    \/ pc = "startup" /\ stderrPipe = <<>> /\ AtEof
    \/ pc = "startup_readline" /\ stderrPipe = <<>> /\ Alive
    \/ pc = "select" /\ stdoutPipe = <<>> /\ Alive
    \/ pc = "rl_read" /\ FindNL(stdoutPipe) = 0 /\ Alive
    \/ pc = "wait" /\ Alive

\* A second passes, for the bridge and for the child.
TimedTick ==
    /\ ~ChildDue
    /\ Waiting
    /\ elapsed < Limit \/ now < MaxExit
    /\ elapsed' = Min(elapsed + 1, Limit)
    /\ now' = Min(now + 1, MaxExit)
    /\ UNCHANGED <<pc, timeout, reader, stdinClosed, stdinWritten, childVars, readVars, endVars,
                   exitAt, run, first, toolVars, callVars, otherVars>>

\* The first call has returned; the bridge is called again, with the same
\* timeout.
SecondCall ==
    /\ pc = "done"
    /\ run = 1
    /\ run' = 2
    /\ first' = [written |-> written, errWritten |-> errWritten, exitAt |-> exitAt,
                 reader |-> reader, error |-> error, result |-> result]
    /\ pc' = "idle"
    /\ elapsed' = 0
    /\ reader' = "none"
    /\ child' = "none"
    /\ childWaitsEof' = FALSE
    /\ stdinClosed' = FALSE
    /\ stdinWritten' = <<>>
    /\ written' = <<>>
    /\ stdoutPipe' = <<>>
    /\ errWritten' = <<>>
    /\ stderrPipe' = <<>>
    /\ buffer' = <<>>
    /\ output' = <<>>
    /\ stop' = ""
    /\ error' = ""
    /\ reaps' = 0
    /\ result' = None
    /\ outcome' = "pending"
    /\ now' = 0
    /\ exitAt' = NotStarted
    /\ UNCHANGED <<timeout, toolVars, callVars, otherVars>>

TimedNext ==
    \/ TimedBridge
    \/ TimedChildStart
    \/ TimedChildExit
    \/ TimedTick
    \/ SecondCall

SpecTwoCalls == Init /\ [][TimedNext]_vars


\* ------------------------------------------------ the tool-level operations
\* resolve_library_id and fetch_documentation (lines 259-357).  A bridge
\* call is one call of communicate_with_mcp_server: Popen is called once,
\* and the call returns None or the last value decoded from the child.
Names == {PyStr(<<"l", "i", "b">>), PyStr(<<"o", "/", "l">>), PyStr(<<"/">>), PyStr(<<>>)}

TokenMenu == {-1, 0, 100, TOKEN_FLOOR - 1, TOKEN_FLOOR, TOKEN_FLOOR + 1, 9000}

ResolvedId == PyStr(<<"o", "r", "g", "/", "l", "i", "b">>)

Responses ==
    {PyNone, PyInt(0), PyInt(7), PyStr(<<>>), PyStr(K_result), PyList(<<>>),
     PyList(<<PyStr(K_result)>>), PyList(<<PyInt(7)>>), PyDict(<<>>),
     PyDict([k \in {K_result} |-> ResolvedId]),
     PyDict([k \in {K_result} |-> PyStr(<<"l", "i", "b">>)]),
     PyDict([k \in {K_result} |-> PyNone]),
     PyDict([k \in {K_result} |-> PyInt(7)]),
     PyDict([k \in {K_log} |-> PyInt(7)]),
     PyDict([k \in {K_library} |-> ResolvedId]),
     PyDict([k \in {K_result, K_snippets} |-> PyList(<<PyInt(7)>>)]),
     PyDict([k \in {K_library, K_snippets, K_totalTokens, K_lastUpdated} |->
                IF k = K_totalTokens THEN PyInt(7)
                ELSE IF k = K_snippets THEN PyList(<<ResolvedId>>)
                ELSE ResolvedId])}

Topics == {PyStr(<<>>), PyStr(<<"h", "/", "k">>)}

\* The custom_timeout argument and the --timeout option: not given, 0, 7.
TimeoutArgs == {PyNone, PyInt(0), PyInt(7)}

\* The configurations load_config returns, as far as timeouts go.
Configs ==
    [context7 : {Absent, PyInt(0), PyInt(60)}, mcp_server : {Absent, PyInt(45)}]
        \cup {DefaultTimeouts}

\* server_config.get("timeout", 30), server_config being
\* config.get("mcpServers", {}).get("context7", {}) (lines 263, 266).
ServerTimeout(cfg) == GetOr(cfg.context7, PyInt(DEFAULT_TIMEOUT))

\* A timeout that takes the argument whenever it is not None.
ToolTimeoutIfGiven(custom, cfg) == IF custom # PyNone THEN custom ELSE ServerTimeout(cfg)

\* timeout = custom_timeout or server_config.get("timeout", 30) (lines 266, 305).
ToolTimeout(custom, cfg) == PyOr(custom, ServerTimeout(cfg))

\* The timeout the resolve step of fetch_documentation runs under: its
\* custom_timeout is fetch_documentation's timeout (line 313).
ResolveStepTimeout(custom, cfg) == ToolTimeout(ToolTimeout(custom, cfg), cfg)

\* The request_data of the two tools (lines 271-276, 323-330).
ResolveRequest(name) == [tool |-> "resolve-library-id", args |-> [libraryName |-> name]]

\* A request that leaves the topic at its default.
DocsRequestNoTopic(id, tp, n) ==
    [tool |-> "get-library-docs",
     args |-> [context7CompatibleLibraryID |-> id, topic |-> PyStr(<<>>), tokens |-> TokensSent(n)]]

DocsRequest(id, tp, n) ==
    [tool |-> "get-library-docs",
     args |-> [context7CompatibleLibraryID |-> id, topic |-> tp, tokens |-> TokensSent(n)]]

\* resolve_library_id(name, custom_timeout=ct) is called (lines 259-280),
\* load_config returning cfg.  load_config (line 261) is outside the try:
\* what it raises leaves the operation.
ResolveCalled(name, ct, cfg) ==
    /\ op' = "resolve"
    /\ original' = name
    /\ custom_timeout' = ct
    /\ config' = cfg
    /\ \/ /\ toolExc' = "config"
          /\ tpc' = "done"
          /\ UNCHANGED <<stage, requests, timeouts>>
       \/ /\ requests' = <<ResolveRequest(name)>>
          /\ timeouts' = <<ToolTimeout(ct, cfg)>>
          /\ stage' = "resolve"
          /\ tpc' = "bridge"
          /\ toolExc' = toolExc
    /\ UNCHANGED <<library_id, tokens, topic, response, popens, spawns, toolResult, caught>>
    /\ UNCHANGED <<bridgeVars, pairVars, callVars, otherVars>>

CallResolve ==
    /\ tpc = "idle"
    /\ cli' = cli
    /\ \E name \in Names, ct \in TimeoutArgs, cfg \in Configs : ResolveCalled(name, ct, cfg)

\* fetch_documentation(id, tp, n, custom_timeout=ct) is called (lines
\* 297-336), load_config returning cfg.  An input without '/' is resolved
\* first (lines 310-320): resolve_library_id is called with
\* fetch_documentation's timeout, and what it raises is caught and the
\* original input kept.
FetchCalled(id, tp, n, ct, cfg) ==
    /\ op' = "fetch"
    /\ original' = id
    /\ library_id' = id
    /\ topic' = tp
    /\ tokens' = n
    /\ custom_timeout' = ct
    /\ config' = cfg
    /\ \/ /\ toolExc' = "config"
          /\ tpc' = "done"
          /\ UNCHANGED <<stage, requests, timeouts, caught>>
       \/ /\ ~HasSlash(id)
          /\ requests' = <<ResolveRequest(id)>>
          /\ timeouts' = <<ResolveStepTimeout(ct, cfg)>>
          /\ stage' = "resolve"
          /\ tpc' = "bridge"
          /\ UNCHANGED <<toolExc, caught>>
       \/ /\ ~HasSlash(id)
          /\ caught' = "config"
          /\ requests' = <<DocsRequest(ChooseId([exc |-> "config", value |-> PyNone], id), tp, n)>>
          /\ timeouts' = <<ToolTimeout(ct, cfg)>>
          /\ stage' = "docs"
          /\ tpc' = "bridge"
          /\ toolExc' = toolExc
       \/ /\ HasSlash(id)
          /\ requests' = <<DocsRequest(id, tp, n)>>
          /\ timeouts' = <<ToolTimeout(ct, cfg)>>
          /\ stage' = "docs"
          /\ tpc' = "bridge"
          /\ UNCHANGED <<toolExc, caught>>
    /\ UNCHANGED <<response, popens, spawns, toolResult>>
    /\ UNCHANGED <<bridgeVars, pairVars, callVars, otherVars>>

CallFetch ==
    /\ tpc = "idle"
    /\ cli' = cli
    /\ \E id \in Names, tp \in Topics, n \in TokenMenu, ct \in TimeoutArgs, cfg \in Configs :
          FetchCalled(id, tp, n, ct, cfg)

\* main's timeout for the fetch command (lines 421-426): the --timeout
\* option when it is truthy, otherwise
\* config.get("mcp_server", {}).get("timeout", 30).
MainFetchTimeout(opt, cfg) ==
    LET timeout_ == IF Truthy(opt) THEN opt ELSE PyNone IN
    IF timeout_ = PyNone THEN GetOr(cfg.mcp_server, PyInt(DEFAULT_TIMEOUT)) ELSE timeout_

\* main runs the fetch command (lines 415-428): tokens that are not
\* positive end it with an error message, otherwise fetch_documentation is
\* called with main's timeout as custom_timeout.
MainFetch ==
    /\ tpc = "idle"
    /\ \E id \in Names, tp \in Topics, n \in TokenMenu, opt \in TimeoutArgs, cfg \in Configs :
          /\ cli' = [command |-> "fetch", timeout |-> opt]
          /\ IF n <= 0
             THEN /\ tpc' = "refused"
                  /\ UNCHANGED <<op, stage, original, library_id, tokens, requests, response,
                                 popens, spawns, toolResult, toolExc, caught,
                                 topic, custom_timeout, config, timeouts>>
                  /\ UNCHANGED <<bridgeVars, pairVars, callVars, otherVars>>
             ELSE FetchCalled(id, tp, n, MainFetchTimeout(opt, cfg), cfg)

\* main runs the resolve command (lines 430-438): the timeout of lines
\* 432-433 is not handed on, resolve_library_id is called with the name
\* alone.
MainResolve ==
    /\ tpc = "idle"
    /\ \E name \in Names, opt \in TimeoutArgs, cfg \in Configs :
          /\ cli' = [command |-> "resolve", timeout |-> opt]
          /\ ResolveCalled(name, PyNone, cfg)

\* A bridge call that starts two children.
BridgePopenTwice ==
    /\ tpc = "bridge"
    /\ popens' = popens + 2
    /\ spawns' = spawns + 2
    /\ tpc' = "exchange"
    /\ UNCHANGED <<op, stage, original, topic, custom_timeout, config, cli, library_id, tokens, requests, timeouts, response,
                   toolResult, toolExc, caught>>
    /\ UNCHANGED <<bridgeVars, pairVars, callVars, otherVars>>

\* The bridge call starts its child (lines 73-80); a failure is caught by
\* the bridge's handler (lines 255-257) and None returned.
BridgePopen ==
    /\ tpc = "bridge"
    /\ popens' = popens + 1
    /\ \/ /\ spawns' = spawns + 1
          /\ tpc' = "exchange"
          /\ response' = response
       \/ /\ spawns' = spawns
          /\ tpc' = "returned"
          /\ response' = PyNone
    /\ UNCHANGED <<op, stage, original, topic, custom_timeout, config, cli, library_id, tokens, requests, timeouts, toolResult, toolExc,
                   caught>>
    /\ UNCHANGED <<bridgeVars, pairVars, callVars, otherVars>>

\* The bridge call returns (lines 246-257).
BridgeReturn ==
    /\ tpc = "exchange"
    /\ response' \in Responses
    /\ tpc' = "returned"
    /\ UNCHANGED <<op, stage, original, topic, custom_timeout, config, cli, library_id, tokens, requests, timeouts, popens, spawns,
                   toolResult, toolExc, caught>>
    /\ UNCHANGED <<bridgeVars, pairVars, callVars, otherVars>>

\* resolve_library_id returns (lines 281-295); inside fetch_documentation
\* the resolved identifier replaces the input when it is truthy (lines
\* 313-320) and the get-library-docs request follows (lines 322-336).
ResolveReturn ==
    /\ tpc = "returned"
    /\ stage = "resolve"
    /\ LET r == Handler(ResolveTry(response)) IN
       IF op = "resolve"
       THEN /\ toolResult' = r.value
            /\ toolExc' = r.exc
            /\ tpc' = "done"
            /\ UNCHANGED <<stage, library_id, requests, timeouts, caught>>
       ELSE /\ library_id' = ChooseId(r, library_id)
            /\ caught' = r.exc
            /\ requests' = Append(requests, DocsRequest(library_id', topic, tokens))
            /\ timeouts' = Append(timeouts, ToolTimeout(custom_timeout, config))
            /\ stage' = "docs"
            /\ tpc' = "bridge"
            /\ UNCHANGED <<toolResult, toolExc>>
    /\ UNCHANGED <<op, original, topic, custom_timeout, config, cli, tokens, response, popens, spawns>>
    /\ UNCHANGED <<bridgeVars, pairVars, callVars, otherVars>>

\* fetch_documentation returns (lines 337-357).
FetchReturn ==
    /\ tpc = "returned"
    /\ stage = "docs"
    /\ LET r == Handler(FetchTry(response)) IN
          /\ toolResult' = r.value
          /\ toolExc' = r.exc
    /\ tpc' = "done"
    /\ UNCHANGED <<op, stage, original, topic, custom_timeout, config, cli, library_id, tokens, requests, timeouts, response,
                   popens, spawns, caught>>
    /\ UNCHANGED <<bridgeVars, pairVars, callVars, otherVars>>

ToolNext ==
    \/ CallResolve
    \/ CallFetch
    \/ MainFetch
    \/ MainResolve
    \/ BridgePopen
    \/ BridgeReturn
    \/ ResolveReturn
    \/ FetchReturn

SpecTools == Init /\ [][ToolNext]_vars


\* ------------------------------------------------ two calls at the same time
\* Two tool-level operations run at the same time, each in its own
\* activation of communicate_with_mcp_server.  process, output and the
\* pipes are local to an activation (lines 73-80, 112); what the calls could
\* share is only what the operating system holds: the children.  A call is
\* cut into its steps on a child (Popen, write, read, terminate, wait, kill,
\* the final read of stderr), and the steps of the two calls and of the
\* children interleave freely.  Time is left out: the deadline of the read
\* loop may pass at any step.

\* fetch_documentation calls the bridge at most twice (lines 313 and 336).
MaxBridgeCalls == 2

\* The stdout lines of a child in these runs: one that decodes and goes on,
\* one that ends the read loop, one that does not decode.
CallMenu == {LineLog, LineResult, LineBad}

Kid(c) == children[process[c]]
Touch(c, o) == touched' = [call |-> c, pid |-> process[c], op |-> o]
SetKid(c, r) == children' = [children EXCEPT ![process[c]] = r]
NewChild(c) == [by |-> c, state |-> "running", stdin |-> FALSE, pipe |-> <<>>,
                wrote |-> 0, reaped |-> 0]

\* The activation ends: its locals are gone, and with the Popen object the
\* pipes to its child and what was left in them.
Leave(c) ==
    /\ callPc' = [callPc EXCEPT ![c] = "idle"]
    /\ callOutput' = [callOutput EXCEPT ![c] = <<>>]
    /\ SetKid(c, [Kid(c) EXCEPT !.pipe = <<>>, !.wrote = 0])

\* A handle kept in one place for all calls instead of in a local variable.
CPopenShared(c) ==
    /\ callPc[c] = "idle"
    /\ bridgeCalls[c] < MaxBridgeCalls
    /\ bridgeCalls' = [bridgeCalls EXCEPT ![c] = @ + 1]
    /\ \/ /\ Len(children) < MaxChildren
          /\ children' = Append(children, NewChild(c))
          /\ process' = [x \in Calls |-> Len(children) + 1]
          /\ touched' = [call |-> c, pid |-> Len(children) + 1, op |-> "Popen"]
          /\ callOutput' = [callOutput EXCEPT ![c] = <<>>]
          /\ callPc' = [callPc EXCEPT ![c] = "write"]
          /\ UNCHANGED callResult
       \/ /\ callResult' = [callResult EXCEPT ![c] = NoValue]
          /\ UNCHANGED <<children, process, touched, callOutput, callPc>>
    /\ UNCHANGED <<bridgeVars, pairVars, toolVars, otherVars>>

\* Lines 70-80 and 112: the call starts a child with three new pipes and
\* binds it to its local variable process; output starts empty.  When the
\* child cannot be started the handler of line 255 returns None.
CPopen(c) ==
    /\ callPc[c] = "idle"
    /\ bridgeCalls[c] < MaxBridgeCalls
    /\ bridgeCalls' = [bridgeCalls EXCEPT ![c] = @ + 1]
    /\ \/ /\ Len(children) < MaxChildren
          /\ children' = Append(children, NewChild(c))
          /\ process' = [process EXCEPT ![c] = Len(children) + 1]
          /\ touched' = [call |-> c, pid |-> Len(children) + 1, op |-> "Popen"]
          /\ callOutput' = [callOutput EXCEPT ![c] = <<>>]
          /\ callPc' = [callPc EXCEPT ![c] = "write"]
          /\ UNCHANGED callResult
       \/ /\ callResult' = [callResult EXCEPT ![c] = NoValue]
          /\ UNCHANGED <<children, process, touched, callOutput, callPc>>
    /\ UNCHANGED <<bridgeVars, pairVars, toolVars, otherVars>>

\* Lines 101-105: the request is written to process.stdin and stdin is
\* closed.  When the child has exited the write raises BrokenPipeError and
\* the handler of line 255 returns None.
CWrite(c) ==
    /\ callPc[c] = "write"
    /\ Touch(c, "write")
    /\ IF Kid(c).state = "running"
       THEN /\ SetKid(c, [Kid(c) EXCEPT !.stdin = TRUE])
            /\ callPc' = [callPc EXCEPT ![c] = "read"]
            /\ UNCHANGED callResult
            /\ UNCHANGED callOutput
       ELSE /\ callResult' = [callResult EXCEPT ![c] = NoValue]
            /\ Leave(c)
    /\ UNCHANGED <<bridgeCalls, process>>
    /\ UNCHANGED <<bridgeVars, pairVars, toolVars, otherVars>>

\* Lines 129-225: one line is read from process.stdout; a line that decodes
\* is appended to output, and a terminal object ends the loop.
CRead(c) ==
    /\ callPc[c] = "read"
    /\ Kid(c).pipe # <<>>
    /\ Touch(c, "read")
    /\ SetKid(c, [Kid(c) EXCEPT !.pipe = Tail(@)])
    /\ LET line == Head(Kid(c).pipe)
           v == JsonLoads(Strip(line.text))
       IN  IF v = JsonDecodeError
           THEN UNCHANGED <<callOutput, callPc>>
           ELSE /\ callOutput' = [callOutput EXCEPT ![c] = Append(@, [value |-> v, of |-> line.of])]
                /\ callPc' = [callPc EXCEPT ![c] = IF IsTerminal(v) THEN "terminate" ELSE "read"]
    /\ UNCHANGED <<bridgeCalls, process, callResult>>
    /\ UNCHANGED <<bridgeVars, pairVars, toolVars, otherVars>>

\* The read loop ends with no terminal object: the deadline has passed, or
\* process.poll() has found the child gone (lines 129, 166, 201, 223).
CReadEnd(c) ==
    /\ callPc[c] = "read"
    /\ Touch(c, "poll")
    /\ callPc' = [callPc EXCEPT ![c] = "terminate"]
    /\ UNCHANGED <<bridgeCalls, process, callOutput, callResult, children>>
    /\ UNCHANGED <<bridgeVars, pairVars, toolVars, otherVars>>

\* Line 229: process.terminate().  A running child dies of the signal or
\* ignores it.
CTerminate(c) ==
    /\ callPc[c] = "terminate"
    /\ Touch(c, "terminate")
    /\ \/ /\ Kid(c).state = "running"
          /\ SetKid(c, [Kid(c) EXCEPT !.state = "exited"])
       \/ UNCHANGED children
    /\ callPc' = [callPc EXCEPT ![c] = "wait"]
    /\ UNCHANGED <<bridgeCalls, process, callOutput, callResult>>
    /\ UNCHANGED <<bridgeVars, pairVars, toolVars, otherVars>>

\* Line 231: process.wait(timeout=2) returns: the child has exited and is
\* reaped.
CWait(c) ==
    /\ callPc[c] = "wait"
    /\ Kid(c).state # "running"
    /\ Touch(c, "wait")
    /\ SetKid(c, [Kid(c) EXCEPT !.reaped = c])
    /\ callPc' = [callPc EXCEPT ![c] = "return"]
    /\ UNCHANGED <<bridgeCalls, process, callOutput, callResult>>
    /\ UNCHANGED <<bridgeVars, pairVars, toolVars, otherVars>>

\* Lines 232-234: the wait has expired and process.kill() is called.
CKill(c) ==
    /\ callPc[c] = "wait"
    /\ Kid(c).state = "running"
    /\ Touch(c, "kill")
    /\ SetKid(c, [Kid(c) EXCEPT !.state = "killed", !.reaped = c])
    /\ callPc' = [callPc EXCEPT ![c] = "return"]
    /\ UNCHANGED <<bridgeCalls, process, callOutput, callResult>>
    /\ UNCHANGED <<bridgeVars, pairVars, toolVars, otherVars>>

\* Lines 237-253: process.stderr is read to its end and the last decoded
\* value, or None, is returned.
CReturn(c) ==
    /\ callPc[c] = "return"
    /\ Touch(c, "read")
    /\ callResult' = [callResult EXCEPT ![c] =
            IF callOutput[c] = <<>> THEN NoValue ELSE SelectResponse(callOutput[c])]
    /\ Leave(c)
    /\ UNCHANGED <<bridgeCalls, process>>
    /\ UNCHANGED <<bridgeVars, pairVars, toolVars, otherVars>>

\* A running child writes a line on its own stdout.
KidWrite(k) ==
    /\ children[k].state = "running"
    /\ children[k].wrote < MaxCallLines
    /\ \E l \in CallMenu :
          children' = [children EXCEPT ![k].pipe = Append(@, [text |-> l, of |-> k]),
                                       ![k].wrote = @ + 1]
    /\ UNCHANGED <<callPc, bridgeCalls, process, callOutput, callResult, touched>>
    /\ UNCHANGED <<bridgeVars, pairVars, toolVars, otherVars>>

\* A running child exits by itself.
KidExit(k) ==
    /\ children[k].state = "running"
    /\ children' = [children EXCEPT ![k].state = "exited"]
    /\ UNCHANGED <<callPc, bridgeCalls, process, callOutput, callResult, touched>>
    /\ UNCHANGED <<bridgeVars, pairVars, toolVars, otherVars>>

ConcurrentNext ==
    \/ \E c \in Calls : CPopen(c)
    \/ \E c \in Calls : CWrite(c)
    \/ \E c \in Calls : CRead(c)
    \/ \E c \in Calls : CReadEnd(c)
    \/ \E c \in Calls : CTerminate(c)
    \/ \E c \in Calls : CWait(c)
    \/ \E c \in Calls : CKill(c)
    \/ \E c \in Calls : CReturn(c)
    \/ \E k \in 1..Len(children) : KidWrite(k)
    \/ \E k \in 1..Len(children) : KidExit(k)

SpecConcurrent == Init /\ [][ConcurrentNext]_vars


\* ------------------------------------------------ the SDK operations
\* resolve_library_id_sdk and fetch_documentation_sdk
\* (src/aider_mcp_client/mcp_sdk_client.py, lines 146-515), each around one
\* call of call_mcp_tool.  What call_mcp_tool returns is None, a number, a
\* str, a list or a mapping.
K_libraryId == <<"l", "i", "b", "r", "a", "r", "y", "I", "d">>
K_documentation == <<"d", "o", "c">>
JS == <<".", "j", "s">>
NEXT == <<"n", "e", "x", "t">>

\* s.endswith(suffix)
EndsWith(s, suffix) ==
    Len(s) >= Len(suffix) /\ SubSeq(s, Len(s) - Len(suffix) + 1, Len(s)) = suffix

\* Lines 168-171 and 423-427: a name that ends with ".js" loses these three
\* characters.
Normalized(name) ==
    IF EndsWith(Val(name), JS)
    THEN PyStr(SubSeq(Val(name), 1, Len(Val(name)) - Len(JS)))
    ELSE name

\* str.lower(), on the characters of the names used here.
Lower(s) == [i \in 1..Len(s) |-> IF s[i] = "R" THEN "r" ELSE s[i]]

SdkNames ==
    {PyStr(NEXT \o JS), PyStr(NEXT), PyStr(<<"R", "e", "a", "c", "t">>),
     PyStr(<<"l", "i", "b">>), PyStr(JS)}
SdkIds == {PyStr(<<"o", "/">> \o NEXT \o JS), PyStr(<<"o", "/", "l">>)}
SdkTokenMenu == {1000, TOKEN_FLOOR, 9000}
SdkTimeouts == {7, DEFAULT_TIMEOUT}

SdkResults ==
    {PyNone, PyInt(7), PyStr(<<>>), PyStr(<<"o", "/", "l">>), PyList(<<PyInt(7)>>),
     PyDict(<<>>),
     PyDict([k \in {K_libraryId} |-> ResolvedId]),
     PyDict([k \in {K_log} |-> PyInt(7)]),
     PyDict([k \in {K_content} |-> PyStr(<<"t">>)]),
     PyDict([k \in {K_content} |-> PyList(<<PyInt(7)>>)]),
     PyDict([k \in {K_documentation, K_library, K_snippets, K_totalTokens, K_lastUpdated} |->
                IF k = K_totalTokens THEN PyInt(7)
                ELSE IF k = K_snippets THEN PyList(<<>>)
                ELSE ResolvedId])}

\* The identifiers the code knows by heart (lines 496-501, 508-514).
KnownLibrary(library_name) ==
    IF Lower(Val(library_name)) = <<"r", "e", "a", "c", "t">>
    THEN PyStr(<<"f", "/", "r">>)
    ELSE IF Lower(Val(library_name)) \in {NEXT, NEXT \o <<"j", "s">>}
    THEN PyStr(<<"v", "/", "n">>)
    ELSE PyNone

\* What resolve_library_id_sdk makes of call_mcp_tool's result (lines
\* 441-515), library_name being the normalized name.
SdkResolveResult(res, library_name) ==
    IF ~Truthy(res) THEN PyNone
    ELSE IF Type(res) = "dict" THEN PyGet(res, K_libraryId, PyNone).value
    ELSE IF Type(res) = "str" THEN res
    ELSE KnownLibrary(library_name)

\* str(x)
StrOf(x) == IF Type(x) = "str" THEN x ELSE [str_of |-> x]

\* What fetch_documentation_sdk makes of call_mcp_tool's result (lines
\* 188-191, 323-336, 399-400), library_id being the normalized identifier
\* and n the tokens argument.
SdkFetchResult(res, library_id_, n) ==
    IF ~Truthy(res) THEN PyNone
    ELSE IF Type(res) = "dict"
    THEN LET got == PyGet(res, K_documentation, PyStr(<<>>)).value
             documentation ==
                 IF ~Truthy(got) /\ K_content \in DOMAIN Val(res)
                 THEN PyGet(res, K_content, PyStr(<<>>)).value
                 ELSE got
         IN  PyDict([k \in {K_content, K_library, K_snippets, K_totalTokens, K_lastUpdated} |->
                 IF k = K_content
                 THEN IF Type(documentation) = "str" THEN documentation
                      ELSE JsonDumps(documentation)
                 ELSE IF k = K_library THEN PyGet(res, K_library, library_id_).value
                 ELSE IF k = K_snippets THEN PyGet(res, K_snippets, PyList(<<>>)).value
                 ELSE IF k = K_totalTokens THEN PyGet(res, K_totalTokens, PyInt(n)).value
                 ELSE PyGet(res, K_lastUpdated, PyStr(<<>>)).value])
    ELSE PyDict([k \in {K_content, K_library} |->
                    IF k = K_content THEN StrOf(res) ELSE library_id_])

\* resolve_library_id_sdk is called and calls call_mcp_tool (lines 405-439).
SdkCallResolve ==
    /\ sdkPc = "idle"
    /\ \E name \in SdkNames, t \in SdkTimeouts :
          /\ sdkGiven' = [id |-> name, topic |-> PyStr(<<>>), tokens |-> 0, timeout |-> t]
          /\ toolCalls' = Append(toolCalls,
                 [tool_name |-> "resolve-library-id",
                  tool_args |-> [libraryName |-> Normalized(name)],
                  timeout |-> t])
    /\ sdkOp' = "resolve"
    /\ sdkPc' = "called"
    /\ UNCHANGED <<sdkToolResult, sdkResult>>
    /\ UNCHANGED <<bridgeVars, pairVars, toolVars, callVars, configVars, sessVars, stdoutShut>>

\* fetch_documentation_sdk is called and calls call_mcp_tool (lines 146-186).
SdkCallFetch ==
    /\ sdkPc = "idle"
    /\ \E id \in SdkIds, tp \in Topics, n \in SdkTokenMenu, t \in SdkTimeouts :
          /\ sdkGiven' = [id |-> id, topic |-> tp, tokens |-> n, timeout |-> t]
          /\ toolCalls' = Append(toolCalls,
                 [tool_name |-> "get-library-docs",
                  tool_args |-> [context7CompatibleLibraryID |-> Normalized(id),
                                 topic |-> tp,
                                 tokens |-> PyMax(n, TOKEN_FLOOR)],
                  timeout |-> t])
    /\ sdkOp' = "fetch"
    /\ sdkPc' = "called"
    /\ UNCHANGED <<sdkToolResult, sdkResult>>
    /\ UNCHANGED <<bridgeVars, pairVars, toolVars, callVars, configVars, sessVars, stdoutShut>>

\* call_mcp_tool returns.
SdkToolReturn ==
    /\ sdkPc = "called"
    /\ sdkToolResult' \in SdkResults
    /\ sdkPc' = "returned"
    /\ UNCHANGED <<sdkOp, sdkGiven, toolCalls, sdkResult>>
    /\ UNCHANGED <<bridgeVars, pairVars, toolVars, callVars, configVars, sessVars, stdoutShut>>

\* resolve_library_id_sdk returns (lines 441-515).
SdkResolveReturn ==
    /\ sdkPc = "returned"
    /\ sdkOp = "resolve"
    /\ sdkResult' = SdkResolveResult(sdkToolResult, Last(toolCalls).tool_args.libraryName)
    /\ sdkPc' = "done"
    /\ UNCHANGED <<sdkOp, sdkGiven, toolCalls, sdkToolResult>>
    /\ UNCHANGED <<bridgeVars, pairVars, toolVars, callVars, configVars, sessVars, stdoutShut>>

\* fetch_documentation_sdk returns (lines 188-403).
SdkFetchReturn ==
    /\ sdkPc = "returned"
    /\ sdkOp = "fetch"
    /\ sdkResult' = SdkFetchResult(sdkToolResult,
                        Last(toolCalls).tool_args.context7CompatibleLibraryID,
                        sdkGiven.tokens)
    /\ sdkPc' = "done"
    /\ UNCHANGED <<sdkOp, sdkGiven, toolCalls, sdkToolResult>>
    /\ UNCHANGED <<bridgeVars, pairVars, toolVars, callVars, configVars, sessVars, stdoutShut>>

SdkNext ==
    \/ SdkCallResolve
    \/ SdkCallFetch
    \/ SdkToolReturn
    \/ SdkResolveReturn
    \/ SdkFetchReturn

SpecSdk == Init /\ [][SdkNext]_vars


\* ------------------------------------------------------------ load_config
\* The two load_config functions: the one of aider_mcp_client/client.py,
\* which looks for ./.aider-mcp-client/config.json and then for
\* ~/.aider-mcp-client/config.json, and the one of the mcp_client package,
\* which takes a path.  A dict is a function from its keys to its values.

PyBool(b) == [bool |-> b]

\* default_config of aider_mcp_client/client.py (lines 33-42).
default_config ==
    PyDict([mcpServers |->
        PyDict([context7 |->
            PyDict([command |-> PyStr(<<"n", "p", "x">>),
                    args |-> PyList(<<PyStr(<<"-", "y">>), PyStr(<<"c", "7">>)>>),
                    enabled |-> PyBool(TRUE),
                    timeout |-> PyInt(DEFAULT_TIMEOUT)])])])

\* default_config of mcp_client/client.py (lines 9-14).
mcp_default_config ==
    [server |-> PyStr(<<"C", "7">>), host |-> PyStr(<<"l", "h">>),
     port |-> PyInt(8000), timeout |-> PyInt(DEFAULT_TIMEOUT)]

\* What the two config files may decode to: a configuration naming a
\* server, one naming a timeout only, and JSON that is not an object.
FileValues ==
    {PyDict([mcp_server |-> PyDict([command |-> PyStr(<<"t">>)])]),
     PyDict([mcpServers |-> PyDict([context7 |-> PyDict([timeout |-> PyInt(60)])])]),
     PyList(<<PyInt(1)>>)}

ConfigFiles == {Missing, Unreadable, NotUtf8, NotJson} \cup {Holds(v) : v \in FileValues}

\* What the file at config_path may decode to: objects with none, some or
\* all of the default keys, with and without a key of their own, and JSON
\* that is not an object.
PathValues ==
    {PyDict([timeout |-> PyInt(60)]),
     PyDict([host |-> PyStr(<<"h">>), port |-> PyInt(9000), extra |-> PyInt(1)]),
     PyDict([server |-> PyStr(<<"s">>), host |-> PyStr(<<"h">>),
             port |-> PyInt(9000), timeout |-> PyInt(60)]),
     PyDict([extra |-> PyInt(1)]),
     PyList(<<PyInt(1)>>)}

PathFiles == {Missing, Unreadable, NotJson} \cup {Holds(v) : v \in PathValues}

\* The config_path argument: not given, the empty string, a path.
ConfigPaths == {PyNone, PyStr(<<>>), PyStr(<<"p">>)}

\* The body of a try block ended in an exception its except clause names.
Caught == Raised("caught")

\* with open(path, 'r', encoding='utf-8') as f: return json.load(f), inside
\* try ... except (json.JSONDecodeError, IOError) (lines 49-54, 59-64): an
\* OSError of open and a JSONDecodeError of json.load are caught, while the
\* UnicodeDecodeError of reading bytes that are not UTF-8 is neither.
TryLoad(f) ==
    IF f.file = "json" THEN Returned(f.value)
    ELSE IF f.file \in {"unreadable", "not json"} THEN Caught
    ELSE Raised("UnicodeDecodeError")

\* if path.exists(): try ... (lines 48, 58).
LoadIfExists(f) == IF f.file = "missing" THEN Caught ELSE TryLoad(f)

\* load_config() of aider_mcp_client/client.py (lines 27-66).
ClientLoadConfig(local, home) ==
    IF LoadIfExists(local) # Caught THEN LoadIfExists(local)
    ELSE IF LoadIfExists(home) # Caught THEN LoadIfExists(home)
    ELSE Returned(default_config)

\* A merge in which the defaults win.
MergeDefaultsWin(d, c) ==
    [k \in DOMAIN d \cup DOMAIN c |-> IF k \in DOMAIN d THEN d[k] ELSE c[k]]

\* {**default_config, **config} (line 19).
Merge(d, c) ==
    [k \in DOMAIN d \cup DOMAIN c |-> IF k \in DOMAIN c THEN c[k] ELSE d[k]]

\* bool(config_path): None and the empty string are false.
PathGiven(path) == path # PyNone /\ path # PyStr(<<>>)

\* load_config(config_path) of mcp_client/client.py (lines 7-20): nothing
\* is caught, and ** of a value that is not a mapping is a TypeError.
McpLoadConfig(path, f) ==
    IF ~PathGiven(path) \/ f.file = "missing" THEN Returned(PyDict(mcp_default_config))
    ELSE IF f.file = "unreadable" THEN Raised("PermissionError")
    ELSE IF f.file = "not json" THEN Raised("JSONDecodeError")
    ELSE IF Type(f.value) # "dict" THEN Raised("TypeError")
    ELSE Returned(PyDict(Merge(mcp_default_config, Val(f.value))))

\* The files load_config looks for, as the caller's environment left them.
PutLocalFile ==
    /\ cfgPc = "idle"
    /\ \E f \in ConfigFiles : localFile' = f
    /\ UNCHANGED <<cfgPc, cfgOp, homeFile, config_path, pathFile, loaded>>
    /\ UNCHANGED <<bridgeVars, pairVars, toolVars, callVars, sdkVars, sessVars, stdoutShut>>

PutHomeFile ==
    /\ cfgPc = "idle"
    /\ \E f \in ConfigFiles : homeFile' = f
    /\ UNCHANGED <<cfgPc, cfgOp, localFile, config_path, pathFile, loaded>>
    /\ UNCHANGED <<bridgeVars, pairVars, toolVars, callVars, sdkVars, sessVars, stdoutShut>>

PutPathFile ==
    /\ cfgPc = "idle"
    /\ \E f \in PathFiles : pathFile' = f
    /\ UNCHANGED <<cfgPc, cfgOp, localFile, homeFile, config_path, loaded>>
    /\ UNCHANGED <<bridgeVars, pairVars, toolVars, callVars, sdkVars, sessVars, stdoutShut>>

\* A call of load_config() of aider_mcp_client/client.py.
CallLoadConfig ==
    /\ cfgPc = "idle"
    /\ cfgPc' = "done"
    /\ cfgOp' = "client"
    /\ loaded' = ClientLoadConfig(localFile, homeFile)
    /\ UNCHANGED <<localFile, homeFile, config_path, pathFile>>
    /\ UNCHANGED <<bridgeVars, pairVars, toolVars, callVars, sdkVars, sessVars, stdoutShut>>

\* A call of load_config(config_path) of mcp_client/client.py.
CallMcpLoadConfig ==
    /\ cfgPc = "idle"
    /\ \E path \in ConfigPaths :
        /\ config_path' = path
        /\ loaded' = McpLoadConfig(path, pathFile)
    /\ cfgPc' = "done"
    /\ cfgOp' = "mcp_client"
    /\ UNCHANGED <<localFile, homeFile, pathFile>>
    /\ UNCHANGED <<bridgeVars, pairVars, toolVars, callVars, sdkVars, sessVars, stdoutShut>>

ConfigNext ==
    \/ PutLocalFile
    \/ PutHomeFile
    \/ PutPathFile
    \/ CallLoadConfig
    \/ CallMcpLoadConfig

SpecConfig == Init /\ [][ConfigNext]_vars


\* ---------------------------------------------------------- call_mcp_tool
\* One call of call_mcp_tool (mcp_sdk_client.py, lines 54-144): it enters
\* stdio_client and ClientSession, awaits initialize and list_tools, awaits
\* call_tool under asyncio.wait_for, and leaves the two async with blocks.
\* The server answers a step, makes it raise, or leaves it unanswered while
\* time passes.

\* How long the clock runs.
MaxSessClock == 3

ToolNames == {"resolve-library-id", "resolve-library", "get-library-docs"}

\* The tools a server advertises: both of Context7, the older name of the
\* resolver, a tool of another name, none.
Advertised ==
    {{"resolve-library-id", "get-library-docs"}, {"resolve-library"}, {"other"}, {}}

\* What call_tool answers.
SessResults == {PyDict([k \in {K_content} |-> PyStr(<<"t">>)])}

\* The steps the call awaits the server in.
Awaiting == {"transport", "session", "initialize", "list_tools", "call_tool"}

\* The tool name call_tool is issued with (lines 95-105): the name asked
\* for, or the other name of the resolver when the name asked for is not
\* advertised and the other one is.
ToolToCall(tool_name, available_tools) ==
    IF tool_name \in available_tools THEN tool_name
    ELSE IF "resolve-library-id" \in available_tools /\ tool_name = "resolve-library"
    THEN "resolve-library-id"
    ELSE IF "resolve-library" \in available_tools /\ tool_name = "resolve-library-id"
    THEN "resolve-library"
    ELSE tool_name

\* An unwinding that leaves the blocks without closing anything.
UnwindLeaks(at) == "return"

\* Where an exception or a return at a step goes first: out of the
\* ClientSession block (line 82) when the session was entered, out of the
\* stdio_client block (line 81) when only the transport was, and to the
\* except clauses of lines 139-144 when neither was.
Unwind(at) ==
    IF at \in {"initialize", "list_tools", "call_tool"} THEN "close session"
    ELSE IF at = "session" THEN "close transport"
    ELSE "return"

\* call_mcp_tool is called and enters stdio_client (lines 74-81).
SessCall ==
    /\ sessPc = "idle"
    /\ \E name \in ToolNames, t \in Timeouts :
          /\ sessAsked' = name
          /\ sessTimeout' = t
    /\ sessLog' = <<"open transport">>
    /\ sessPc' = "transport"
    /\ UNCHANGED <<sessTools, sessCalled, sessElapsed, sessCallAt, sessResult>>
    /\ UNCHANGED <<bridgeVars, pairVars, toolVars, callVars, sdkVars, configVars, stdoutShut>>

\* The transport is open; ClientSession is entered (line 82).
SessTransportOpened ==
    /\ sessPc = "transport"
    /\ sessLog' = sessLog \o <<"transport open", "open session">>
    /\ sessPc' = "session"
    /\ UNCHANGED <<sessAsked, sessTimeout, sessTools, sessCalled, sessElapsed,
                   sessCallAt, sessResult>>
    /\ UNCHANGED <<bridgeVars, pairVars, toolVars, callVars, sdkVars, configVars, stdoutShut>>

\* The session is open; initialize is issued (line 84).
SessSessionOpened ==
    /\ sessPc = "session"
    /\ sessLog' = sessLog \o <<"session open", "initialize">>
    /\ sessPc' = "initialize"
    /\ UNCHANGED <<sessAsked, sessTimeout, sessTools, sessCalled, sessElapsed,
                   sessCallAt, sessResult>>
    /\ UNCHANGED <<bridgeVars, pairVars, toolVars, callVars, sdkVars, configVars, stdoutShut>>

\* initialize is answered; list_tools is issued (line 87).
SessInitialized ==
    /\ sessPc = "initialize"
    /\ sessLog' = sessLog \o <<"initialized", "list_tools">>
    /\ sessPc' = "list_tools"
    /\ UNCHANGED <<sessAsked, sessTimeout, sessTools, sessCalled, sessElapsed,
                   sessCallAt, sessResult>>
    /\ UNCHANGED <<bridgeVars, pairVars, toolVars, callVars, sdkVars, configVars, stdoutShut>>

\* list_tools is answered; the tool name is settled and call_tool is issued
\* under wait_for (lines 88-110).
SessListed ==
    /\ sessPc = "list_tools"
    /\ \E available_tools \in Advertised :
          /\ sessTools' = available_tools
          /\ sessCalled' = Append(sessCalled, ToolToCall(sessAsked, available_tools))
    /\ sessLog' = sessLog \o <<"listed", "call_tool">>
    /\ sessCallAt' = sessElapsed
    /\ sessPc' = "call_tool"
    /\ UNCHANGED <<sessAsked, sessTimeout, sessElapsed, sessResult>>
    /\ UNCHANGED <<bridgeVars, pairVars, toolVars, callVars, sdkVars, configVars, stdoutShut>>

\* call_tool is answered: its result is what the call returns (lines 111-130).
SessCallToolReturns ==
    /\ sessPc = "call_tool"
    /\ sessResult' \in SessResults
    /\ sessLog' = Append(sessLog, "called")
    /\ sessPc' = Unwind(sessPc)
    /\ UNCHANGED <<sessAsked, sessTimeout, sessTools, sessCalled, sessElapsed, sessCallAt>>
    /\ UNCHANGED <<bridgeVars, pairVars, toolVars, callVars, sdkVars, configVars, stdoutShut>>

\* wait_for gives call_tool up, timeout after it was issued (lines 108-110,
\* 131-133).
SessCallToolTimeout ==
    /\ sessPc = "call_tool"
    /\ sessElapsed - sessCallAt >= sessTimeout
    /\ sessResult' = PyNone
    /\ sessLog' = Append(sessLog, "timeout")
    /\ sessPc' = Unwind(sessPc)
    /\ UNCHANGED <<sessAsked, sessTimeout, sessTools, sessCalled, sessElapsed, sessCallAt>>
    /\ UNCHANGED <<bridgeVars, pairVars, toolVars, callVars, sdkVars, configVars, stdoutShut>>

\* The step awaited raises: the call is going to return None (lines
\* 134-138, 142-144), after the blocks entered so far are left.
SessRaise ==
    /\ sessPc \in Awaiting
    /\ sessResult' = PyNone
    /\ sessLog' = Append(sessLog, "error")
    /\ sessPc' = Unwind(sessPc)
    /\ UNCHANGED <<sessAsked, sessTimeout, sessTools, sessCalled, sessElapsed, sessCallAt>>
    /\ UNCHANGED <<bridgeVars, pairVars, toolVars, callVars, sdkVars, configVars, stdoutShut>>

\* The ClientSession block is left (line 82).
SessCloseSession ==
    /\ sessPc = "close session"
    /\ sessLog' = Append(sessLog, "close session")
    /\ sessPc' = "close transport"
    /\ UNCHANGED <<sessAsked, sessTimeout, sessTools, sessCalled, sessElapsed,
                   sessCallAt, sessResult>>
    /\ UNCHANGED <<bridgeVars, pairVars, toolVars, callVars, sdkVars, configVars, stdoutShut>>

\* The stdio_client block is left (line 81) and the call returns.
SessCloseTransport ==
    /\ sessPc = "close transport"
    /\ sessLog' = sessLog \o <<"close transport", "return">>
    /\ sessPc' = "done"
    /\ UNCHANGED <<sessAsked, sessTimeout, sessTools, sessCalled, sessElapsed,
                   sessCallAt, sessResult>>
    /\ UNCHANGED <<bridgeVars, pairVars, toolVars, callVars, sdkVars, configVars, stdoutShut>>

\* The call returns without a block to leave: entering stdio_client raised.
SessReturn ==
    /\ sessPc = "return"
    /\ sessLog' = Append(sessLog, "return")
    /\ sessPc' = "done"
    /\ UNCHANGED <<sessAsked, sessTimeout, sessTools, sessCalled, sessElapsed,
                   sessCallAt, sessResult>>
    /\ UNCHANGED <<bridgeVars, pairVars, toolVars, callVars, sdkVars, configVars, stdoutShut>>

\* Time passes while the call awaits a step the server has not answered.
\* Only call_tool is awaited under wait_for (lines 108-110): it is the one
\* step the call does not await past its timeout.
SessTick ==
    /\ sessPc \in Awaiting
    /\ sessElapsed < MaxSessClock
    /\ sessPc = "call_tool" => sessElapsed - sessCallAt < sessTimeout
    /\ sessElapsed' = sessElapsed + 1
    /\ UNCHANGED <<sessPc, sessAsked, sessTimeout, sessTools, sessCalled, sessLog,
                   sessCallAt, sessResult>>
    /\ UNCHANGED <<bridgeVars, pairVars, toolVars, callVars, sdkVars, configVars, stdoutShut>>

SessNext ==
    \/ SessCall
    \/ SessTransportOpened
    \/ SessSessionOpened
    \/ SessInitialized
    \/ SessListed
    \/ SessCallToolReturns
    \/ SessCallToolTimeout
    \/ SessRaise
    \/ SessCloseSession
    \/ SessCloseTransport
    \/ SessReturn
    \/ SessTick

SpecSession == Init /\ [][SessNext]_vars


\* ----------------------------------------------------------------- claims
Done == pc = "done"

\* The text of stdout the bridge has read so far.
ReadText == Take(Flat(written), Len(Flat(written)) - Len(stdoutPipe))

\* Some decoded value is a terminal object.
TerminalDecoded == \E i \in 1..Len(output) : IsTerminal(output[i])

\* C1: a call that ends without an exception leaves no child alive:
\* terminate() has been called, and the child has exited or was killed.
C1_NoLiveChildAfterReturn ==
    (Done /\ error = "") => (child \in {"exited", "killed"} /\ reaps = 1)

\* C1, its case: a child that answered, stayed alive through the wait and
\* was killed.
C1_Witness ==
    Done /\ error = "" /\ stop = "terminal" /\ child = "killed" /\ result = DictResult

\* C2: on every exit path after the spawn, exceptions included, the reaper
\* has run exactly once and the child is not alive when the call returns.
C2_ReapedOnEveryExitPath ==
    (Done /\ error # "spawn") => (child # "running" /\ reaps = 1)

\* C3: once a terminal object has been decoded nothing more is read from
\* the child's stdout and nothing more is decoded.
C3_StopsAtFirstTerminal ==
    [][TerminalDecoded =>
          (output' = output /\ Len(stdoutPipe') >= Len(stdoutPipe))]_vars

\* C4: a malformed line is discarded alone: when the child wrote a
\* malformed line and then a terminal line, and the bridge has read both,
\* the terminal object has been decoded.
C4_MalformedLineDiscardedAlone ==
    \A T \in {LineResult, LineLibrary} :
        (/\ Len(written) >= 2
         /\ written[1] = LineBad
         /\ written[2] = T
         /\ Len(ReadText) >= Len(Flat(<<LineBad, T>>)))
        => JsonLoads(T) \in Range(output)

\* C5: every call returns: as long as the call has not returned, a step of
\* the bridge, of the child or of the clock is possible (the bridge never
\* waits on a stream that nothing will ever feed or close).
C5_CallNeverStuck == Done \/ ENABLED Next

\* C6: the bridge and the child never wait for each other: the bridge is
\* never waiting for a stderr line of a child that is itself waiting for
\* the end of input on a stdin the bridge has not closed yet.
C6_NoMutualWait ==
    ~(/\ pc = "startup_readline"
      /\ stderrPipe = <<>>
      /\ Alive
      /\ childWaitsEof
      /\ ~stdinClosed)

\* C7 as stated: the value returned is the last decoded value whichever
\* way the loop ended, and None exactly when nothing was decoded.
C7_LastOrNoneExactly ==
    Done => /\ output # <<>> => result = Last(output)
            /\ result = None <=> output = <<>>

\* C7 as amended: the value returned is None when the outer handler caught
\* an exception or nothing was decoded, and the last decoded value
\* otherwise.
C7_LastUnlessException ==
    Done => result = IF error # "" \/ output = <<>> THEN None ELSE Last(output)

\* C7, its case: two different terminal objects decoded, the second returned.
C7_Witness ==
    /\ Done
    /\ error = ""
    /\ Len(output) = 2
    /\ IsTerminal(output[1])
    /\ IsTerminal(output[2])
    /\ output[1] # output[2]
    /\ result = output[2]

\* C8: when the loop stops because the child was seen to have exited or
\* the stream to have ended, every well-formed line still pending (in the
\* buffer or unread in the pipe) is decoded first.
C8_PendingTextDecodedOnExit ==
    [][(stop = "" /\ stop' \in {"exit", "eof"}) =>
          output' = DecodeAll(SplitLines(buffer \o stdoutPipe), output)]_vars

\* C9: the text the child writes on stderr never changes the result of the
\* bridge call: two calls whose children write the same stdout lines and
\* exit at the same second, and in which nothing failed but the pipe, return
\* the same value whatever the children wrote on stderr.
SameChild == run = 2 /\ Done /\ written = first.written /\ exitAt = first.exitAt
NoFault == error \in {"", "pipe"} /\ first.error \in {"", "pipe"}
SameReader == reader = first.reader \/ reader = "none" \/ first.reader = "none"
C9_StderrNeverChangesResult ==
    (SameChild /\ NoFault /\ SameReader) => result = first.result

\* With the same stderr lines as well, the two calls return the same value:
\* nothing but the stderr text makes two calls of one timetable differ.
SameTimetableSameResult ==
    (SameChild /\ NoFault /\ SameReader /\ errWritten = first.errWritten)
        => result = first.result

\* C10 as stated: a failure to start the child and a failure to serialize
\* the request reach the caller as raised errors.
C10_SpawnAndEncodingErrorsRaised ==
    (Done /\ error \in {"spawn", "serialize"}) => outcome = "raised"

\* C10 as amended: both failures are caught by the outer handler and the
\* call returns None.
C10_SpawnAndEncodingErrorsAbsorbed ==
    (Done /\ error \in {"spawn", "serialize"}) => (outcome = "returned" /\ result = None)

\* C10, its case: the request failed to serialize after the child started.
C10_Witness == Done /\ error = "serialize" /\ child = "running"

\* C19: the teardown keeps its order: terminate() comes first, then the
\* bounded wait; the child is killed only when it is still running as the
\* wait expires, so never after it exited; stderr is drained after that.
C19_TeardownOrder ==
    [][/\ (pc' = "wait" /\ pc # "wait") => (pc = "terminate" /\ reaps = 0 /\ reaps' = 1)
       /\ (child' = "killed" /\ child # "killed")
             => (pc = "wait" /\ reaps = 1 /\ child = "running" /\ ~(elapsed < TERM_WAIT))
       /\ (pc' = "stderr_read" /\ pc # "stderr_read")
             => (pc = "wait" /\ child' \in {"exited", "killed"})
       /\ (pc = "stderr_read" /\ pc' # pc)
             => (pc' = "respond" /\ reaps = 1 /\ child \in {"exited", "killed"}
                 /\ stderrPipe' = <<>>)
      ]_vars

\* C19, its case: the wait expired on a running child, which was killed;
\* stderr is about to be drained.
C19_Witness ==
    pc = "stderr_read" /\ child = "killed" /\ reaps = 1 /\ stderrPipe # <<>>

\* C20: no read of the child's stdout is started once the deadline has
\* passed: the loop's next step is then the teardown, whatever the child
\* has written.
C20_NoReadStartedAfterDeadline ==
    [][/\ ((pc = "rl_head" /\ pc' = "rl_read") \/ (pc = "select" /\ pc' = "poll"))
             => elapsed < timeout
       /\ (pc \in {"select", "rl_head"} /\ ~(elapsed < timeout) /\ pc' # pc)
             => (pc' = "terminate" /\ stop' = "timeout"
                 /\ stdoutPipe' = stdoutPipe /\ output' = output)
      ]_vars

\* C20, its case: the deadline ended the loop on a running child that had
\* written non-terminal lines, one of them still unread.
C20_Witness ==
    /\ pc = "terminate" /\ stop = "timeout" /\ Alive
    /\ output # <<>> /\ ~TerminalDecoded /\ stdoutPipe # <<>>

\* ------------------------------------------- claims, tool-level operations
ToolDone == tpc = "done"
IsMapping(x) == Type(x) = "dict"
HasKey(x, k) == IsMapping(x) /\ k \in DOMAIN Val(x)
ResolveRequests == {i \in 1..Len(requests) : requests[i].tool = "resolve-library-id"}
DocsRequests == {i \in 1..Len(requests) : requests[i].tool = "get-library-docs"}

\* C11: resolve_library_id and fetch_documentation never raise on a
\* transport-level failure: when the bridge returned None or a value that
\* is not a mapping, the operation returns None.
C11_TransportFailureGivesNone ==
    (ToolDone /\ requests # <<>> /\ ~IsMapping(response))
        => (toolExc = "" /\ toolResult = PyNone)

\* C11, its case: the bridge returned a number, on which "in" raises.
C11_Witness ==
    ToolDone /\ op = "resolve" /\ response = PyInt(7) /\ toolResult = PyNone /\ toolExc = ""

\* C12: resolve_library_id returns the value of the result field of a
\* response that is a mapping with that field, and None for no response or
\* a response without the field.
C12_ResolveReturnsResultField ==
    (ToolDone /\ op = "resolve" /\ requests # <<>>)
        => /\ toolExc = ""
           /\ toolResult = IF HasKey(response, K_result) THEN Val(response)[K_result]
                           ELSE PyNone

\* C12, its case: the identifier of the result field is returned.
C12_Witness ==
    ToolDone /\ op = "resolve" /\ HasKey(response, K_result) /\ toolResult = ResolvedId

\* C13: fetch_documentation resolves if and only if its input has no '/':
\* with a '/' the only request is get-library-docs; without one the
\* resolve-library-id request comes first, unless resolve_library_id raised
\* before its exchange.
C13_ResolveIffNoSlash ==
    (op = "fetch" /\ requests # <<>>)
        => IF \E i \in 1..Len(Val(original)) : Val(original)[i] = "/"
           THEN ResolveRequests = {} /\ caught = ""
           ELSE (requests[1].tool = "resolve-library-id") # (caught = "config")

\* C13, its cases: an input with '/' in the middle went straight to the
\* docs request and the call is over.
C13_Witness ==
    /\ ToolDone /\ op = "fetch" /\ original = PyStr(<<"o", "/", "l">>)
    /\ Len(requests) = 1 /\ requests[1].tool = "get-library-docs"

\* C14: after a resolution the get-library-docs request carries the
\* resolved identifier when the resolution returned one, and the caller's
\* input when it returned nothing or raised; the request is issued, once.
C14_ResolvedOrOriginal ==
    /\ Cardinality(DocsRequests) <= 1
    /\ (op = "fetch" /\ tpc \notin {"idle"} /\ stage = "docs" /\ toolExc = "")
          => Cardinality(DocsRequests) = 1
    /\ (op = "fetch" /\ tpc = "bridge" /\ stage = "docs" /\ ResolveRequests # {})
          => requests[Len(requests)].args.context7CompatibleLibraryID =
                IF HasKey(response, K_result) /\ Truthy(Val(response)[K_result])
                THEN Val(response)[K_result] ELSE original
    /\ (op = "fetch" /\ caught # "" /\ requests # <<>>)
          => requests[Len(requests)].args.context7CompatibleLibraryID = original

\* C14, its case: the resolution returned nothing and the docs request
\* carries the caller's input.
C14_Witness ==
    /\ op = "fetch" /\ tpc = "bridge" /\ stage = "docs" /\ Len(requests) = 2
    /\ response = PyDict([k \in {K_result} |-> PyNone])
    /\ requests[2].args.context7CompatibleLibraryID = original

\* C15: the tokens of the get-library-docs request are the requested budget
\* raised to 5000 when it is below, and the requested budget otherwise.
C15_TokenFloor ==
    \A i \in DocsRequests :
        requests[i].args.tokens = IF tokens < TOKEN_FLOOR THEN TOKEN_FLOOR ELSE tokens

\* C15, its case: a budget of 100 is sent as 5000.
C15_Witness ==
    \E i \in DocsRequests : tokens = 100 /\ requests[i].args.tokens = TOKEN_FLOOR

\* C16: a bundle returned by fetch_documentation has exactly the five
\* fields; content is the serialized response and every other field is the
\* response's field when present and its default otherwise.
BundleDefault(k) ==
    IF k = K_snippets THEN PyList(<<>>)
    ELSE IF k = K_totalTokens THEN PyInt(0)
    ELSE PyStr(<<>>)

C16_BundleHasFiveFields ==
    (ToolDone /\ op = "fetch" /\ toolResult # PyNone)
        => /\ IsMapping(toolResult)
           /\ DOMAIN Val(toolResult) =
                 {K_content, K_library, K_snippets, K_totalTokens, K_lastUpdated}
           /\ Val(toolResult)[K_content] = JsonDumps(response)
           /\ \A k \in {K_library, K_snippets, K_totalTokens, K_lastUpdated} :
                 Val(toolResult)[k] = IF HasKey(response, k) THEN Val(response)[k]
                                      ELSE BundleDefault(k)

\* C16, its case: a response with the library field only; the other three
\* fields are defaulted.
C16_Witness ==
    /\ ToolDone /\ op = "fetch" /\ toolResult # PyNone
    /\ DOMAIN Val(response) = {K_library}
    /\ Val(toolResult)[K_snippets] = PyList(<<>>)
    /\ Val(toolResult)[K_library] = ResolvedId

\* C17 as stated: every bridge call starts exactly one child, so a finished
\* fetch_documentation has started one child for an input with '/', and two
\* for an input without.
C17_ExactlyOneChildPerCall ==
    (ToolDone /\ op = "fetch" /\ toolExc = "")
        => spawns = IF HasSlash(original) THEN 1 ELSE 2

\* C17 as amended: every bridge call calls Popen exactly once and starts at
\* most one child; the bridge calls follow one another, one per request:
\* one for resolve_library_id and for fetch_documentation with '/', two for
\* fetch_documentation without '/' unless resolve_library_id raised before
\* its bridge call.
C17_OnePopenPerCall ==
    /\ spawns <= popens
    /\ popens = IF tpc = "bridge" THEN Len(requests) - 1 ELSE Len(requests)
    /\ (ToolDone /\ toolExc = "")
          => Len(requests) = IF op = "fetch" /\ ~HasSlash(original) /\ caught # "config"
                             THEN 2 ELSE 1

\* C17, its case: a fetch without '/' whose first child did not start.
C17_Witness ==
    ToolDone /\ op = "fetch" /\ ~HasSlash(original) /\ popens = 2 /\ spawns = 1

\* ------------------------------------------------ claims, concurrent calls
\* C18: when two tool-level operations run at the same time, every step a
\* call takes on a child (Popen, write, read, poll, terminate, wait, kill)
\* is taken on a child that this call started, a child is reaped by no call
\* but the one that started it, and every value a call has decoded or
\* returned was decoded from the output of a child of its own.
C18_EachCallItsOwnChild ==
    /\ touched # NoTouch => children[touched.pid].by = touched.call
    /\ \A k \in 1..Len(children) : children[k].reaped \in {0, children[k].by}
    /\ \A c \in Calls :
          /\ \A i \in 1..Len(callOutput[c]) : callOutput[c][i].of = process[c]
          /\ callResult[c].of # 0 => children[callResult[c].of].by = c
          /\ process[c] # 0 => children[process[c]].by = c

\* One call is in its read loop on a running child that has the request,
\* while the other call, on a child started later, has read, terminated,
\* killed and returned a value.
C18_Witness ==
    \E c, d \in Calls :
        /\ c # d
        /\ callPc[c] = "read"
        /\ Kid(c).state = "running" /\ Kid(c).stdin /\ Kid(c).pipe # <<>>
        /\ callResult[d].of > process[c]
        /\ children[callResult[d].of].state = "killed"
        /\ children[callResult[d].of].reaped = d
        /\ touched = [call |-> c, pid |-> process[c], op |-> "write"]

\* ------------------------------------------------ claims, the request line
\* A text that is one line: not empty, and its only line end is its last
\* character.
OneLine(t) == t # <<>> /\ FindNL(t) = Len(t)

\* C21 as stated: every call that has started a child and has finished has
\* written exactly one line to the child's stdin and closed it.
C21_AlwaysOneLine ==
    (outcome # "pending" /\ child # "none") => (Len(stdinWritten) = 1 /\ stdinClosed)

\* C21: the bridge writes to its child's stdin at most once, and when it
\* does, at line 103 with the child alive, the text is one line (the
\* serialized request and a single line end) and stdin is closed in the
\* same step; stdin is closed in no other way and stays closed; nothing is
\* read from the child's stdout before stdin is closed.
C21_OneLineThenClose ==
    [][/\ stdinWritten' # stdinWritten
             => /\ pc = "send" /\ Alive
                /\ stdinWritten = <<>> /\ ~stdinClosed /\ stdinClosed'
                /\ Len(stdinWritten') = 1 /\ OneLine(stdinWritten'[1])
       /\ stdinClosed' # stdinClosed => (stdinClosed' /\ stdinWritten' # stdinWritten)
       /\ Len(stdoutPipe') < Len(stdoutPipe) => stdinClosed
      ]_vars

\* The request held a line end, its line was written and stdin closed, and
\* values have been decoded from the child's stdout since.
C21_Witness ==
    /\ stdinClosed
    /\ Len(stdinWritten) = 1 /\ ESC_NL \in Range(stdinWritten[1])
    /\ output # <<>>

\* ------------------------------------------------ claims, the silent child
\* The child has exited and has written nothing, on stdout or on stderr.
SilentExit == child = "exited" /\ written = <<>> /\ errWritten = <<>>

\* C22: a call whose child exits without having written anything returns,
\* and what it returns is None; it does not raise and it does not stay
\* unfinished, whether the child exits before the request is written (the
\* write then fails) or after.
C22_SilentExitGivesNone ==
    /\ [](SilentExit /\ pc = "done" => result = None /\ outcome = "returned")
    /\ SilentExit ~> (SilentExit /\ pc = "done" /\ result = None)

\* The child exited before the write, the write failed, and the call has
\* returned None.
C22_Witness ==
    SilentExit /\ pc = "done" /\ error = "pipe" /\ ~stdinClosed /\ result = None

\* ------------------------------------------------ claims, timeouts and requests
\* A timeout was handed to the bridge with every request.
TimeoutPerRequest == Len(timeouts) = Len(requests)

\* C23 as stated: every bridge call of fetch_documentation runs under the
\* custom_timeout argument when one is given (is not None), and otherwise
\* under the configured context7 timeout, 30 when none is configured.
C23_OverrideWheneverGiven ==
    op = "fetch" =>
        \A i \in 1..Len(timeouts) :
            timeouts[i] = IF custom_timeout # PyNone THEN custom_timeout
                          ELSE IF config.context7 = Absent THEN PyInt(DEFAULT_TIMEOUT)
                          ELSE config.context7

\* C23: the resolve step and the fetch step of fetch_documentation are
\* handed the same timeout: the custom_timeout argument when it is given
\* and is not 0, and otherwise the configured context7 timeout, 30 when
\* none is configured.
C23_SameEffectiveTimeout ==
    /\ TimeoutPerRequest
    /\ op = "fetch" =>
          \A i \in 1..Len(timeouts) :
              timeouts[i] = IF custom_timeout \notin {PyNone, PyInt(0)} THEN custom_timeout
                            ELSE IF config.context7 = Absent THEN PyInt(DEFAULT_TIMEOUT)
                            ELSE config.context7

\* C23, its cases: a fetch that resolved first, both steps under the
\* override 7 although 60 is configured.
C23_Witness ==
    /\ ToolDone /\ op = "fetch" /\ cli = NoCli
    /\ custom_timeout = PyInt(7) /\ config.context7 = PyInt(60)
    /\ Len(requests) = 2 /\ timeouts = <<PyInt(7), PyInt(7)>>

\* C24: every request handed to the bridge is either
\* {tool: "resolve-library-id", args: {libraryName}} with the caller's name
\* as it was given, or {tool: "get-library-docs", args:
\* {context7CompatibleLibraryID, topic, tokens}} with the caller's topic as
\* it was given; it has no other key.
C24_RequestShapes ==
    \A i \in 1..Len(requests) :
        /\ DOMAIN requests[i] = {"tool", "args"}
        /\ \/ /\ requests[i].tool = "resolve-library-id"
              /\ DOMAIN requests[i].args = {"libraryName"}
              /\ requests[i].args.libraryName = original
           \/ /\ requests[i].tool = "get-library-docs"
              /\ op = "fetch"
              /\ DOMAIN requests[i].args = {"context7CompatibleLibraryID", "topic", "tokens"}
              /\ requests[i].args.topic = topic
              /\ requests[i].args.context7CompatibleLibraryID = library_id

\* C24, its cases: a fetch with a topic, after a resolve of the name.
C24_Witness ==
    /\ ToolDone /\ Len(requests) = 2
    /\ requests[1].args.libraryName = PyStr(<<"l", "i", "b">>)
    /\ requests[2].args.topic = PyStr(<<"h", "/", "k">>)
    /\ requests[2].args.context7CompatibleLibraryID = ResolvedId

\* ------------------------------------------------ claims, main's timeouts
\* C29: when the fetch command is run without --timeout, every bridge call
\* (the resolve step and the fetch step) is handed the timeout configured
\* under mcpServers.context7.timeout, 30 when none is configured.
C29_FetchCommandHonoursConfig ==
    (cli.command = "fetch" /\ cli.timeout = PyNone)
        => \A i \in 1..Len(timeouts) :
               timeouts[i] = IF config.context7 = Absent THEN PyInt(DEFAULT_TIMEOUT)
                             ELSE config.context7

\* C30: when the resolve command is run with --timeout T, T > 0, the
\* resolve-library-id exchange is handed T.
C30_ResolveCommandHonoursOption ==
    (cli.command = "resolve" /\ Type(cli.timeout) = "int" /\ Truthy(cli.timeout))
        => \A i \in 1..Len(timeouts) : timeouts[i] = cli.timeout

\* ------------------------------------------------ claims, the SDK operations
\* C25: resolve_library_id_sdk calls the resolve-library-id tool exactly
\* once, with libraryName equal to the name it was given.
C25_SdkResolveSendsNameAsGiven ==
    (sdkOp = "resolve" /\ sdkPc = "done")
        => /\ Len(toolCalls) = 1
           /\ toolCalls[1].tool_name = "resolve-library-id"
           /\ toolCalls[1].tool_args.libraryName = sdkGiven.id

\* C26: fetch_documentation_sdk calls the get-library-docs tool exactly
\* once, with the token count, the library identifier and the topic it was
\* given.
C26_SdkFetchSendsArgumentsAsGiven ==
    (sdkOp = "fetch" /\ sdkPc = "done")
        => /\ Len(toolCalls) = 1
           /\ toolCalls[1].tool_name = "get-library-docs"
           /\ toolCalls[1].tool_args.tokens = sdkGiven.tokens
           /\ toolCalls[1].tool_args.context7CompatibleLibraryID = sdkGiven.id
           /\ toolCalls[1].tool_args.topic = sdkGiven.topic


\* C27: load_config returns the content of the local-directory file when it
\* exists and parses, otherwise the content of the home-directory file when
\* that exists and parses, otherwise the built-in default; a local or home
\* file that is unreadable or invalid is passed over instead of failing,
\* and a file's content is returned as is.
Parses(f) == f.file = "json"
C27_LocalThenHomeThenDefault ==
    (cfgPc = "done" /\ cfgOp = "client") =>
        loaded = Returned(IF Parses(localFile) THEN localFile.value
                          ELSE IF Parses(homeFile) THEN homeFile.value
                          ELSE default_config)

\* C28: load_config(path) of the mcp_client package returns, for a file
\* holding a JSON object, the file's value for every key of the file and
\* the default for every default key the file does not have, and nothing
\* else; with no path, or a path that does not exist, it returns the
\* defaults unchanged.
C28_FileKeysOverrideDefaults ==
    (cfgPc = "done" /\ cfgOp = "mcp_client") =>
        /\ (~PathGiven(config_path) \/ pathFile = Missing) =>
               loaded = Returned(PyDict(mcp_default_config))
        /\ (PathGiven(config_path) /\ Parses(pathFile) /\ Type(pathFile.value) = "dict") =>
               /\ loaded.exc = ""
               /\ Type(loaded.value) = "dict"
               /\ LET got == Val(loaded.value)
                      held == Val(pathFile.value)
                  IN  /\ DOMAIN got = DOMAIN mcp_default_config \cup DOMAIN held
                      /\ \A k \in DOMAIN held : got[k] = held[k]
                      /\ \A k \in DOMAIN mcp_default_config \ DOMAIN held :
                             got[k] = mcp_default_config[k]

\* A file that names a timeout of its own and no host was loaded.
C28_Witness ==
    /\ cfgPc = "done" /\ cfgOp = "mcp_client"
    /\ PathGiven(config_path)
    /\ pathFile = Holds(PyDict([timeout |-> PyInt(60)]))
    /\ loaded.exc = ""
    /\ Val(loaded.value)["timeout"] = PyInt(60)
    /\ Val(loaded.value)["host"] = mcp_default_config["host"]


\* C37: every value fetch_documentation_sdk returns that is not None is a
\* bundle holding all five fields content, library, snippets, totalTokens
\* and lastUpdated, whatever the shape of the tool result.
C37_SdkBundleHasFiveFields ==
    (sdkOp = "fetch" /\ sdkPc = "done" /\ sdkResult # PyNone) =>
        /\ Type(sdkResult) = "dict"
        /\ DOMAIN Val(sdkResult) =
               {K_content, K_library, K_snippets, K_totalTokens, K_lastUpdated}


\* ------------------------------------------------- claims, call_mcp_tool
\* C31: the timeout of call_mcp_tool bounds the whole call: the call does
\* not await a step of the server, the connection, initialize and
\* list_tools included, for longer than its timeout, and a call that ends
\* after its timeout has elapsed ends with None.
C31_TimeoutBoundsWholeCall ==
    /\ sessPc \in Awaiting => sessElapsed <= sessTimeout
    /\ (sessPc = "done" /\ sessElapsed > sessTimeout) => sessResult = PyNone

\* The place of the first event e in the log, 0 when it is not there.
At(e) ==
    IF e \in Range(sessLog)
    THEN CHOOSE i \in 1..Len(sessLog) :
             sessLog[i] = e /\ \A j \in 1..(i - 1) : sessLog[j] # e
    ELSE 0
Times(e) == Cardinality({i \in 1..Len(sessLog) : sessLog[i] = e})
Before(a, b) == At(a) # 0 /\ At(a) < At(b)

\* C32: within one call_mcp_tool, list_tools is issued only after
\* initialize was answered and call_tool only after list_tools was;
\* call_tool is issued at most once; and when the call has returned, by a
\* result, a timeout or an error, a session that was opened has been
\* closed and a transport that was opened has been closed after it, both
\* before the return.
C32_StepsInOrderAndClosed ==
    /\ At("list_tools") # 0 => Before("initialized", "list_tools")
    /\ At("call_tool") # 0 => Before("listed", "call_tool")
    /\ At("initialize") # 0 => Before("session open", "initialize")
    /\ Times("call_tool") <= 1 /\ Len(sessCalled) <= 1
    /\ sessPc = "done" =>
          /\ Times("return") = 1 /\ sessLog[Len(sessLog)] = "return"
          /\ At("session open") # 0 =>
                 /\ Times("close session") = 1
                 /\ Before("close session", "close transport")
          /\ At("transport open") # 0 =>
                 /\ Times("close transport") = 1
                 /\ Before("close transport", "return")

\* The call has returned after wait_for gave call_tool up, and the session
\* and the transport were closed on the way.
C32_Witness ==
    /\ sessPc = "done"
    /\ "timeout" \in Range(sessLog)
    /\ Before("close session", "close transport")
    /\ sessResult = PyNone

\* C33: call_tool is only ever issued with a tool the server advertised:
\* when the tool asked for is not advertised and no advertised other name
\* of the resolver applies, call_tool is not issued and the call returns
\* None.
C33_OnlyAdvertisedToolsCalled ==
    /\ \A i \in 1..Len(sessCalled) : sessCalled[i] \in sessTools
    /\ (sessPc = "done" /\ "listed" \in Range(sessLog)
            /\ ToolToCall(sessAsked, sessTools) \notin sessTools)
          => (sessCalled = <<>> /\ sessResult = PyNone)


\* ------------------------------------------------ claims, the three readers
\* C34: for the same lines written by the child and the same exit point,
\* the select reader, the readline reader and the fallback reader return
\* the same response: two calls of one timetable in which nothing failed
\* but the pipe return the same value whichever readers they ran.
C34_ReadersAgree ==
    (SameChild /\ NoFault /\ errWritten = first.errWritten
        /\ reader # "none" /\ first.reader # "none")
        => result = first.result


\* ------------------------------------------------ claims, the output list
\* The values of the lines of ls that are not blank and decode, in order.
RECURSIVE WellFormed(_)
WellFormed(ls) ==
    IF ls = <<>> THEN <<>>
    ELSE IF Strip(Head(ls)) = <<>> \/ JsonLoads(Strip(Head(ls))) = JsonDecodeError
    THEN WellFormed(Tail(ls))
    ELSE <<JsonLoads(Strip(Head(ls)))>> \o WellFormed(Tail(ls))

\* a is b with some of its elements left out.
RECURSIVE IsSubseq(_, _)
IsSubseq(a, b) ==
    IF a = <<>> THEN TRUE
    ELSE IF b = <<>> THEN FALSE
    ELSE IF Head(a) = Head(b) THEN IsSubseq(Tail(a), Tail(b))
    ELSE IsSubseq(a, Tail(b))

\* C35: at every point of a bridge call the output list holds decoded
\* values of non-blank, well-formed lines the child wrote, in the order the
\* child wrote them, each line decoded at most once, the final drain
\* included.
C35_OutputIsDecodedLinesInOrder == IsSubseq(output, WellFormed(written))


\* ------------------------------------------- claims, the end of the stream
\* C36: when the child's stdout is at its end while the child is still
\* running, the read that finds it ends the loop: the next step is the
\* teardown, not another round of polling; and the call does not return
\* before terminate() was called and the child is gone.
C36_EofEndsLoopAndChildIsReaped ==
    [][/\ (stdoutShut /\ Alive /\ stdoutPipe = <<>> /\ pc \in {"select", "rl_read"}
              /\ pc' # pc /\ error' = error)
          => pc' = "terminate"
       /\ (stdoutShut /\ pc # "done" /\ pc' = "done" /\ stop = "eof")
          => (reaps = 1 /\ child \in {"exited", "killed"})
      ]_vars

\* The loop ended at the end of the stream of a running child, which
\* outlived terminate() and was killed.
C36_Witness ==
    /\ stdoutShut /\ stop = "eof"
    /\ pc = "stderr_read" /\ child = "killed" /\ reaps = 1

====
